---- MODULE Spec2Model ----
(***************************************************************************)
(* Model of the Price-is-Right wheel solver: the exact-rational Fraction   *)
(* class (fraction.cpp) and the backward-induction solve pass              *)
(* initialize_dp_tables of the simulation-enabled main file, with its      *)
(* three optimal policies.                                                 *)
(*                                                                         *)
(* One solve pass is modelled at the granularity of the outermost loop of  *)
(* each of its six blocks: one step per iteration of the outer `for`.      *)
(***************************************************************************)
EXTENDS Integers, Sequences, FiniteSets, TLC

(***************************************************************************)
(* Program constants.                                                      *)
(***************************************************************************)
\* The literal 20 of every loop bound, array extent (21 = WheelSize + 1),
\* bust test and Fraction(1, 20).
WheelSize == 20

Totals == 0..WheelSize
Spins == 1..WheelSize
Players == 0..2

(***************************************************************************)
(* Fraction (fraction.cpp).  A Fraction is the pair of its two fields.     *)
(*                                                                         *)
(* The model checker's integers are 32 bits wide, the program's are 64.    *)
(* Each operator below therefore cancels the common factors of the         *)
(* operands BEFORE it forms the products the C++ forms, and then           *)
(* simplifies as the C++ does.  The canonical result is the same as the    *)
(* C++ one whenever the C++ products do not overflow, and they do not in   *)
(* any evaluation the model checker completes: every numerator and         *)
(* denominator it handles is below 2^31, so each C++ product is below 2^62 *)
(* and each sum of two products below 2^63.                                *)
(***************************************************************************)
Abs(x) == IF x < 0 THEN -x ELSE x

RECURSIVE Gcd(_, _)
Gcd(a, b) == IF b = 0 THEN a ELSE Gcd(b, a % b)

\* The two fields of a Fraction, stored as the pair <<numerator, denominator>>.
numerator(x) == x[1]
denominator(x) == x[2]

\* Fraction::simplify applied to the fields (num, denom), denom /= 0.
simplify(num, denom) ==
    IF num = 0 THEN <<0, 1>>
    ELSE LET common_divisor == Gcd(Abs(num), Abs(denom))
             n == num \div common_divisor
             d == denom \div common_divisor
         IN  IF d < 0 THEN <<-n, -d>> ELSE <<n, d>>

\* Fraction(num, denom) constructor.
Fraction(num, denom) == simplify(num, denom)

\* Fraction::operator+
FracAdd(x, y) ==
    LET g == Gcd(denominator(x), denominator(y))
        xd == denominator(x) \div g
        yd == denominator(y) \div g
    IN  Fraction(numerator(x) * yd + numerator(y) * xd, xd * denominator(y))

\* Fraction::operator-
FracSub(x, y) ==
    LET g == Gcd(denominator(x), denominator(y))
        xd == denominator(x) \div g
        yd == denominator(y) \div g
    IN  Fraction(numerator(x) * yd - numerator(y) * xd, xd * denominator(y))

\* Fraction::operator*
FracMul(x, y) ==
    IF numerator(x) = 0 \/ numerator(y) = 0 THEN Fraction(0, 1)
    ELSE LET g1 == Gcd(Abs(numerator(x)), denominator(y))
             g2 == Gcd(Abs(numerator(y)), denominator(x))
         IN  Fraction((numerator(x) \div g1) * (numerator(y) \div g2),
                      (denominator(x) \div g2) * (denominator(y) \div g1))

\* Fraction::operator<=> : the sign of lhs - rhs, lhs = a*d, rhs = c*b.
FracCmp(x, y) ==
    LET g == Gcd(denominator(x), denominator(y))
        lhs == numerator(x) * (denominator(y) \div g)
        rhs == numerator(y) * (denominator(x) \div g)
    IN  IF lhs < rhs THEN -1 ELSE IF lhs > rhs THEN 1 ELSE 0

\* operator> synthesised from operator<=>
FracGt(x, y) == FracCmp(x, y) > 0

\* Fraction::operator==
FracEq(x, y) ==
    numerator(x) = numerator(y) /\ denominator(x) = denominator(y)

Zero == Fraction(0, 1)
One == Fraction(1, 1)

\* player1_win + player2_win + player3_win of a cell
Sum3(c) == FracAdd(FracAdd(c[0], c[1]), c[2])

\* Faulty variant of ThirdStop: a spin above two busted players counted as
\* a tie with them.
ThirdStop_TiesWithBusts(p1, p2, spin1) ==
    LET max_score == IF p1 >= p2 THEN p1 ELSE p2
        winning_player == IF p1 >= p2 THEN 0 ELSE 1
    IN  IF spin1 > max_score /\ max_score > 0
          THEN [i \in Players |-> IF i = 2 THEN One ELSE Zero]
        ELSE IF spin1 < max_score
          THEN [i \in Players |-> IF i = winning_player THEN One ELSE Zero]
        ELSE IF p1 = p2
          THEN [i \in Players |-> Fraction(1, 3)]
          ELSE [i \in Players |->
                   IF i = winning_player \/ i = 2 THEN Fraction(1, 2) ELSE Zero]

\* Faulty variant of ThirdStop: the three-way tie valued like a two-way tie.
ThirdStop_TieAsTwoWay(p1, p2, spin1) ==
    LET max_score == IF p1 >= p2 THEN p1 ELSE p2
        winning_player == IF p1 >= p2 THEN 0 ELSE 1
    IN  IF spin1 > max_score
          THEN [i \in Players |-> IF i = 2 THEN One ELSE Zero]
        ELSE IF spin1 < max_score
          THEN [i \in Players |-> IF i = winning_player THEN One ELSE Zero]
          ELSE [i \in Players |->
                   IF i = winning_player \/ i = 2 THEN Fraction(1, 2) ELSE Zero]

\* Faulty variant of ThirdStop: winning_player taken as player 1 whatever the prior totals.
ThirdStop_FirstAlwaysAhead(p1, p2, spin1) ==
    LET max_score == IF p1 >= p2 THEN p1 ELSE p2
        winning_player == 0
    IN  IF spin1 > max_score
          THEN [i \in Players |-> IF i = 2 THEN One ELSE Zero]
        ELSE IF spin1 < max_score
          THEN [i \in Players |-> IF i = winning_player THEN One ELSE Zero]
        ELSE IF p1 = p2
          THEN [i \in Players |-> Fraction(1, 3)]
          ELSE [i \in Players |->
                   IF i = winning_player \/ i = 2 THEN Fraction(1, 2) ELSE Zero]

(***************************************************************************)
(* Third player's options: the body of the four nested loops.              *)
(***************************************************************************)
\* The "Don't spin again" branch for the cell (p1, p2, spin1).
ThirdStop(p1, p2, spin1) ==
    LET max_score == IF p1 >= p2 THEN p1 ELSE p2
        winning_player == IF p1 >= p2 THEN 0 ELSE 1
    IN  IF spin1 > max_score
          THEN [i \in Players |-> IF i = 2 THEN One ELSE Zero]
        ELSE IF spin1 < max_score
          THEN [i \in Players |-> IF i = winning_player THEN One ELSE Zero]
        ELSE IF p1 = p2
          THEN [i \in Players |-> Fraction(1, 3)]
          ELSE [i \in Players |->
                   IF i = winning_player \/ i = 2 THEN Fraction(1, 2) ELSE Zero]

\* prob_new_spin and the three products the "Spin again" loop adds.
prob_new_spin == Fraction(1, WheelSize)
SpinWin == FracMul(prob_new_spin, Fraction(1, 1))
SpinThreeWay == FracMul(prob_new_spin, Fraction(1, 3))
SpinTwoWay == FracMul(prob_new_spin, Fraction(1, 2))

\* Faulty variant of the iteration: a total above the ceiling is held at
\* the ceiling instead of becoming 0.
ThirdSpinStep_BustAtCeiling(acc, p1, p2, spin1, spin2) ==
    LET max_score == IF p1 >= p2 THEN p1 ELSE p2
        winning_player == IF p1 >= p2 THEN 0 ELSE 1
        total_score == IF spin1 + spin2 > WheelSize THEN WheelSize ELSE spin1 + spin2
    IN  IF total_score > max_score
          THEN [acc EXCEPT ![2] = FracAdd(@, SpinWin)]
        ELSE IF total_score < max_score
          THEN [acc EXCEPT ![winning_player] = FracAdd(@, SpinWin)]
        ELSE IF p1 = p2
          THEN [i \in Players |-> FracAdd(acc[i], SpinThreeWay)]
          ELSE [acc EXCEPT ![winning_player] = FracAdd(@, SpinTwoWay),
                           ![2] = FracAdd(@, SpinTwoWay)]

\* One iteration of the "Spin again" loop: the += statements for spin2.
ThirdSpinStep(acc, p1, p2, spin1, spin2) ==
    LET max_score == IF p1 >= p2 THEN p1 ELSE p2
        winning_player == IF p1 >= p2 THEN 0 ELSE 1
        total_score == IF spin1 + spin2 > WheelSize THEN 0 ELSE spin1 + spin2
    IN  IF total_score > max_score
          THEN [acc EXCEPT ![2] = FracAdd(@, SpinWin)]
        ELSE IF total_score < max_score
          THEN [acc EXCEPT ![winning_player] = FracAdd(@, SpinWin)]
        ELSE IF p1 = p2
          THEN [i \in Players |-> FracAdd(acc[i], SpinThreeWay)]
          ELSE [acc EXCEPT ![winning_player] = FracAdd(@, SpinTwoWay),
                           ![2] = FracAdd(@, SpinTwoWay)]

RECURSIVE ThirdSpinLoop(_, _, _, _, _)
ThirdSpinLoop(acc, p1, p2, spin1, spin2) ==
    IF spin2 > WheelSize THEN acc
    ELSE ThirdSpinLoop(ThirdSpinStep(acc, p1, p2, spin1, spin2),
                       p1, p2, spin1, spin2 + 1)

\* The cell stored for (p1, p2, spin1, spinAgain).
ThirdCell(p1, p2, spin1, spinAgain) ==
    IF spinAgain = 0 THEN ThirdStop(p1, p2, spin1)
    ELSE ThirdSpinLoop([i \in Players |-> Zero], p1, p2, spin1, 1)

\* The block reads nothing but its loop variables, so the cells it stores
\* are tabulated once.
ThirdTable ==
    [p1 \in Totals |-> [p2 \in Totals |-> [spin1 \in Totals |->
        [spinAgain \in 0..1 |-> ThirdCell(p1, p2, spin1, spinAgain)]]]]

ThirdRow(p1) == ThirdTable[p1]

(***************************************************************************)
(* Policies.  A policy is what the caller passes as a function pointer:    *)
(* one of the three optimal policies of the program, or one of a few       *)
(* fixed policies that do not look at the tables.                          *)
(***************************************************************************)
MaxThreshold == 10

Optimal == [kind |-> "optimal", k |-> 0]
Skip == [kind |-> "skip", k |-> 0]
Coin == [kind |-> "coin", k |-> 0]
Threshold(k) == [kind |-> "threshold", k |-> k]

\* The policy triples a pass is started with (third, second, first).
PassInputs ==
    { <<Optimal, Optimal, Optimal>>,
      <<Coin, Skip, Threshold(MaxThreshold)>>,
      <<Threshold(MaxThreshold), Coin, Skip>>,
      <<Skip, Threshold(0), Coin>> }

\* A policy that ignores the tables: "skip" declines the first spin,
\* "coin" answers 1/2 everywhere, "threshold" spins again up to k.
FixedPolicy(pol, spin1) ==
    IF pol.kind = "skip" THEN (IF spin1 = 0 THEN One ELSE Zero)
    ELSE IF pol.kind = "coin" THEN Fraction(1, 2)
    ELSE IF spin1 >= 1 /\ spin1 <= pol.k THEN One ELSE Zero

VARIABLES
    pc,                               \* the block of the pass being executed
    idx,                              \* its outermost loop variable
    third_player_policy,              \* the three parameters of the pass
    second_player_policy,
    first_player_policy,
    third_player_probability,         \* [p1][p2][spin1][spinAgain][player]
    third_player_policy_probability,  \* [p1][p2][player]
    second_player_probability,        \* [p1][spin1][spinAgain][player]
    second_player_policy_probability, \* [p1][player]
    first_player_probability,         \* [spin1][spinAgain][player]
    first_player_policy_probability,  \* [player]
    written,                          \* history: rows stored in this pass
    reads,                            \* history: rows the last step read
    passes,                           \* history: passes started so far
    sim_pc,                           \* simulate_game: position in the loop body
    p1_total, p2_total, p3_total,     \* its function-scope totals
    turn_total,                       \* the totals declared inside the three turns
    policy_args,                      \* history: the totals passed to the policies
    winner,                           \* the player whose win counter was incremented
    fx, fy,                           \* two Fraction instances
    fop,                              \* history: the last Fraction operation and its arguments
    fres,                             \* what that operation returned, or how it failed
    value, min_bound, max_bound,      \* the fields of an Assumption
    comparisons,                      \* history: the comparisons made, with their results
    before,                           \* history: <<min_bound, max_bound>> before the last one
    verdict,                          \* <<true_value, what is_valid returned>> if it was the last call
    tie_idx                           \* mainv1: tie decisions of the pass made so far

tables == <<third_player_probability, third_player_policy_probability,
            second_player_probability, second_player_policy_probability,
            first_player_probability, first_player_policy_probability>>

params == <<third_player_policy, second_player_policy, first_player_policy>>

history == <<written, reads, passes>>

simvars == <<sim_pc, p1_total, p2_total, p3_total, turn_total, policy_args, winner>>

fracvars == <<fx, fy, fop, fres>>

assumvars == <<value, min_bound, max_bound, comparisons, before, verdict,
               tie_idx>>

\* The state of the parts of the program a specification leaves out.
others == <<simvars, fracvars, assumvars>>

vars == <<pc, idx, params, tables, history, others>>

ZeroCell == [i \in Players |-> Zero]

(***************************************************************************)
(* The three optimal policies.  They read the global tables.               *)
(***************************************************************************)
\* Faulty variant: the third player decides on the second player's component.
third_player_optimal_policy_OtherComponent(player1_score, player2_score, spin1) ==
    IF spin1 = 0 THEN Fraction(0, 1)
    ELSE LET win_prob_if_spin ==
                 third_player_probability[player1_score][player2_score][spin1][1][1]
             win_prob_if_no_spin ==
                 third_player_probability[player1_score][player2_score][spin1][0][1]
         IN  IF FracGt(win_prob_if_spin, win_prob_if_no_spin)
               THEN Fraction(1, 1) ELSE Fraction(0, 1)

\* Faulty variant: the comparison of the two win probabilities turned round.
third_player_optimal_policy_Reversed(player1_score, player2_score, spin1) ==
    IF spin1 = 0 THEN Fraction(0, 1)
    ELSE LET win_prob_if_spin ==
                 third_player_probability[player1_score][player2_score][spin1][1][2]
             win_prob_if_no_spin ==
                 third_player_probability[player1_score][player2_score][spin1][0][2]
         IN  IF FracGt(win_prob_if_no_spin, win_prob_if_spin)
               THEN Fraction(1, 1) ELSE Fraction(0, 1)

third_player_optimal_policy(player1_score, player2_score, spin1) ==
    IF spin1 = 0 THEN Fraction(0, 1)
    ELSE LET win_prob_if_spin ==
                 third_player_probability[player1_score][player2_score][spin1][1][2]
             win_prob_if_no_spin ==
                 third_player_probability[player1_score][player2_score][spin1][0][2]
         IN  IF FracGt(win_prob_if_spin, win_prob_if_no_spin)
               THEN Fraction(1, 1) ELSE Fraction(0, 1)

second_player_optimal_policy(player1_score, spin1) ==
    IF spin1 = 0 THEN Fraction(0, 1)
    ELSE LET win_prob_if_spin ==
                 second_player_probability[player1_score][spin1][1][1]
             win_prob_if_no_spin ==
                 second_player_probability[player1_score][spin1][0][1]
         IN  IF FracGt(win_prob_if_spin, win_prob_if_no_spin)
               THEN Fraction(1, 1) ELSE Fraction(0, 1)

first_player_optimal_policy(spin1) ==
    IF spin1 = 0 THEN Fraction(0, 1)
    ELSE LET win_prob_if_spin == first_player_probability[spin1][1][1]
             win_prob_if_no_spin == first_player_probability[spin1][0][1]
         IN  IF FracGt(win_prob_if_spin, win_prob_if_no_spin)
               THEN Fraction(1, 1) ELSE Fraction(0, 1)

\* Calls through the three function pointers.
ThirdPolicyCall(p1, p2, spin) ==
    IF third_player_policy.kind = "optimal"
      THEN third_player_optimal_policy(p1, p2, spin)
      ELSE FixedPolicy(third_player_policy, spin)

SecondPolicyCall(p1, spin) ==
    IF second_player_policy.kind = "optimal"
      THEN second_player_optimal_policy(p1, spin)
      ELSE FixedPolicy(second_player_policy, spin)

FirstPolicyCall(spin) ==
    IF first_player_policy.kind = "optimal"
      THEN first_player_optimal_policy(spin)
      ELSE FixedPolicy(first_player_policy, spin)

(***************************************************************************)
(* Third person win rate based on their policy: the body of the p1, p2     *)
(* loops.                                                                  *)
(***************************************************************************)
\* policy * D[spin][1][i] + (Fraction(1, 1) - policy) * D[spin][0][i],
\* times spin_probability, added to the accumulators.
spin_probability == Fraction(1, WheelSize)

\* The element of a one-element set.
Only(S) == CHOOSE v \in S : TRUE

\* Faulty variant: the policy's value weighs the stop cell and its complement
\* the spin-again cell.
CollapseStep_BranchesSwapped(acc, policy, D, spin) ==
    LET win(i) ==
            FracAdd(acc[i],
                FracMul(Fraction(1, WheelSize),
                    FracAdd(FracMul(policy, D[spin][0][i]),
                            FracMul(FracSub(Fraction(1, 1), policy),
                                    D[spin][1][i]))))
    IN  (0 :> win(0)) @@ (1 :> win(1)) @@ (2 :> win(2))

\* The three accumulators player1_win, player2_win and player3_win after
\* the += statements for one spin.
CollapseStep(acc, policy, D, spin) ==
    LET win(i) ==
            FracAdd(acc[i],
                FracMul(spin_probability,
                    FracAdd(FracMul(policy, D[spin][1][i]),
                            FracMul(FracSub(Fraction(1, 1), policy),
                                    D[spin][0][i]))))
    IN  (0 :> win(0)) @@ (1 :> win(1)) @@ (2 :> win(2))

RECURSIVE ThirdCollapseLoop(_, _, _, _)
ThirdCollapseLoop(acc, p1, p2, spin) ==
    IF spin > WheelSize THEN acc
    ELSE Only({ThirdCollapseLoop(wins, p1, p2, spin + 1) :
                  wins \in {CollapseStep(acc, ThirdPolicyCall(p1, p2, spin),
                                         third_player_probability[p1][p2],
                                         spin)}})

\* The "=" with prob_of_first_spin followed by the "+=" with its complement.
CollapseCell(prob_of_first_spin, D, wins) ==
    [i \in Players |->
        FracAdd(FracMul(prob_of_first_spin, D[0][0][i]),
                FracMul(FracSub(Fraction(1, 1), prob_of_first_spin), wins[i]))]

ThirdCollapseWins(p1, p2) == ThirdCollapseLoop(ZeroCell, p1, p2, 1)

\* Faulty variant: the first statement of the collapse is "+=" too, so the
\* cell is added to what the table held.
ThirdCollapseCell_AddsToStored(p1, p2, wins) ==
    [i \in Players |->
        FracAdd(third_player_policy_probability[p1][p2][i],
                CollapseCell(ThirdPolicyCall(p1, p2, 0),
                             third_player_probability[p1][p2], wins)[i])]

ThirdCollapseCell(p1, p2, wins) ==
    CollapseCell(ThirdPolicyCall(p1, p2, 0),
                 third_player_probability[p1][p2], wins)

(***************************************************************************)
(* Second player's options: the body of the p1, spin1, spinAgain loops.    *)
(***************************************************************************)
RECURSIVE SecondSpinLoop(_, _, _, _)
SecondSpinLoop(acc, p1, spin1, new_spin) ==
    IF new_spin > WheelSize THEN acc
    ELSE LET p2total == IF spin1 + new_spin > WheelSize
                          THEN 0 ELSE spin1 + new_spin
             sum(i) ==
                 FracAdd(acc[i],
                     FracMul(prob_new_spin,
                         third_player_policy_probability[p1][p2total][i]))
         IN  Only({SecondSpinLoop(cell, p1, spin1, new_spin + 1) :
                      cell \in {(0 :> sum(0)) @@ (1 :> sum(1)) @@ (2 :> sum(2))}})

SecondCell(p1, spin1, spinAgain) ==
    IF spinAgain = 0 THEN third_player_policy_probability[p1][spin1]
    ELSE SecondSpinLoop(ZeroCell, p1, spin1, 1)

(***************************************************************************)
(* Second person win rate based on their policy: the body of the p1 loop.  *)
(***************************************************************************)
RECURSIVE SecondCollapseLoop(_, _, _)
SecondCollapseLoop(acc, p1, spin) ==
    IF spin > WheelSize THEN acc
    ELSE Only({SecondCollapseLoop(wins, p1, spin + 1) :
                  wins \in {CollapseStep(acc, SecondPolicyCall(p1, spin),
                                         second_player_probability[p1],
                                         spin)}})

SecondCollapseWins(p1) == SecondCollapseLoop(ZeroCell, p1, 1)

SecondCollapseCell(p1, wins) ==
    CollapseCell(SecondPolicyCall(p1, 0), second_player_probability[p1], wins)

(***************************************************************************)
(* First player's options: the body of the spin1, spinAgain loops.         *)
(***************************************************************************)
RECURSIVE FirstSpinLoop(_, _, _)
FirstSpinLoop(acc, spin1, spin2) ==
    IF spin2 > WheelSize THEN acc
    ELSE LET p1total == IF spin1 + spin2 > WheelSize THEN 0 ELSE spin1 + spin2
             sum(i) ==
                 FracAdd(acc[i],
                     FracMul(prob_new_spin,
                         second_player_policy_probability[p1total][i]))
         IN  Only({FirstSpinLoop(cell, spin1, spin2 + 1) :
                      cell \in {(0 :> sum(0)) @@ (1 :> sum(1)) @@ (2 :> sum(2))}})

FirstCell(spin1, spinAgain) ==
    IF spinAgain = 0 THEN second_player_policy_probability[spin1]
    ELSE FirstSpinLoop(ZeroCell, spin1, 1)

(***************************************************************************)
(* First person win rate based on their policy.                            *)
(***************************************************************************)
RECURSIVE FirstCollapseLoop(_, _)
FirstCollapseLoop(acc, spin) ==
    IF spin > WheelSize THEN acc
    ELSE Only({FirstCollapseLoop(wins, spin + 1) :
                  wins \in {CollapseStep(acc, FirstPolicyCall(spin),
                                         first_player_probability, spin)}})

FirstCollapseWins == FirstCollapseLoop(ZeroCell, 1)

\* Faulty variant: the "+=" forgets the factor (1 - prob_of_first_spin).
FirstCollapseCell_NoComplement(wins) ==
    [i \in Players |->
        FracAdd(FracMul(FirstPolicyCall(0), first_player_probability[0][0][i]),
                wins[i])]

FirstCollapseCell(wins) ==
    CollapseCell(FirstPolicyCall(0), first_player_probability, wins)

\* assert((player1_win + player2_win + player3_win) == Fraction(1, 1))
AssertSumsToOne(c) == FracEq(Sum3(c), Fraction(1, 1))

(***************************************************************************)
(* The solve pass.                                                         *)
(***************************************************************************)
\* The blocks of initialize_dp_tables in the order they are written.
Blocks == <<"third_raw", "third_policy", "second_raw", "second_policy",
            "first_raw", "first_policy">>

BlockIndex(b) == CHOOSE n \in 1..Len(Blocks) : Blocks[n] = b

\* Faulty variant: the second player's options are worked out before the
\* third player's policy-collapsed table.
BlockAfter_SecondRawEarly(b) ==
    CASE b = "third_raw" -> "second_raw"
      [] b = "second_raw" -> "third_policy"
      [] b = "third_policy" -> "second_policy"
      [] b = "second_policy" -> "first_raw"
      [] b = "first_raw" -> "first_policy"
      [] OTHER -> "done"

\* The block control reaches when block b has run to its end.
BlockAfter(b) ==
    IF BlockIndex(b) = Len(Blocks) THEN "done" ELSE Blocks[BlockIndex(b) + 1]

\* Control after one iteration of the outer loop of block b, whose last
\* value of the loop variable is `last`; a failed assert aborts the program.
Advance(b, last, asserts_hold) ==
    IF ~asserts_hold THEN pc' = "aborted" /\ idx' = idx
    ELSE IF idx = last THEN pc' = BlockAfter(b) /\ idx' = 0
    ELSE pc' = b /\ idx' = idx + 1

TableNames == {"third_player_probability", "third_player_policy_probability",
               "second_player_probability", "second_player_policy_probability",
               "first_player_probability", "first_player_policy_probability"}

\* History: the step stored row idx of table t and read the rows rd.
Record(t, rd) ==
    /\ written' = [written EXCEPT ![t] = @ \cup {idx}]
    /\ reads' = rd

\* The rows of second_player_policy_probability (resp. of
\* third_player_policy_probability[p1]) that a raw cell with first spin
\* spin1 reads: spin1 itself and every total of the spin-again loop.
TotalsRead(spin1) ==
    {spin1} \cup {IF spin1 + spin2 > WheelSize THEN 0 ELSE spin1 + spin2 :
                     spin2 \in Spins}

\* No game is being simulated.
NoSimulation ==
    /\ sim_pc = "off"
    /\ p1_total = 0
    /\ p2_total = 0
    /\ p3_total = 0
    /\ turn_total = <<0, 0, 0>>
    /\ policy_args = <<>>
    /\ winner = 0

\* No Fraction instance is being exercised on its own.
NoFraction ==
    /\ fx = <<0, 1>>
    /\ fy = <<0, 1>>
    /\ fop = <<"none">>
    /\ fres = <<"none">>

\* No Assumption has been constructed.
NoAssumption ==
    /\ value = <<0, 1>>
    /\ min_bound = <<0, 1>>
    /\ max_bound = <<1, 1>>
    /\ comparisons = <<>>
    /\ before = <<>>
    /\ verdict = <<>>
    /\ tie_idx = 0

Init ==
    /\ pc = "idle"
    /\ idx = 0
    /\ third_player_policy = Optimal
    /\ second_player_policy = Optimal
    /\ first_player_policy = Optimal
    /\ third_player_probability =
         [p1 \in Totals |-> [p2 \in Totals |-> [s \in Totals |->
             [a \in 0..1 |-> ZeroCell]]]]
    /\ third_player_policy_probability =
         [p1 \in Totals |-> [p2 \in Totals |-> ZeroCell]]
    /\ second_player_probability =
         [p1 \in Totals |-> [s \in Totals |-> [a \in 0..1 |-> ZeroCell]]]
    /\ second_player_policy_probability = [p1 \in Totals |-> ZeroCell]
    /\ first_player_probability = [s \in Totals |-> [a \in 0..1 |-> ZeroCell]]
    /\ first_player_policy_probability = ZeroCell
    /\ written = [t \in TableNames |-> {}]
    /\ reads = {}
    /\ passes = 0
    /\ NoSimulation
    /\ NoFraction
    /\ NoAssumption

\* main calls initialize_dp_tables with three policies.
StartPass ==
    /\ pc = "idle"
    /\ \E in \in PassInputs :
          /\ third_player_policy' = in[1]
          /\ second_player_policy' = in[2]
          /\ first_player_policy' = in[3]
    /\ pc' = Blocks[1]
    /\ idx' = 0
    /\ written' = [t \in TableNames |-> {}]
    /\ reads' = {}
    /\ passes' = 1
    /\ UNCHANGED <<tables, others>>

\* One value of p1 in "Calculate the 3rd player's options".
ThirdRaw ==
    /\ pc = "third_raw"
    /\ UNCHANGED <<passes, others>>
    /\ \E row \in {ThirdRow(idx)} :
          /\ third_player_probability' =
                [third_player_probability EXCEPT ![idx] = row]
          /\ Advance("third_raw", WheelSize,
                 \A p2 \in Totals, s \in Totals, a \in 0..1 :
                     AssertSumsToOne(row[p2][s][a]))
    /\ Record("third_player_probability", {})
    /\ UNCHANGED <<params, third_player_policy_probability,
                   second_player_probability, second_player_policy_probability,
                   first_player_probability, first_player_policy_probability>>

\* One value of p1 in "Calculate third person win rate based on their policy".
ThirdPolicy ==
    /\ pc = "third_policy"
    /\ UNCHANGED <<passes, others>>
    /\ \E wins \in {[p2 \in Totals |-> ThirdCollapseWins(idx, p2)]} :
          /\ third_player_policy_probability' =
                [third_player_policy_probability EXCEPT
                    ![idx] = [p2 \in Totals |-> ThirdCollapseCell(idx, p2, wins[p2])]]
          /\ Advance("third_policy", WheelSize,
                 \A p2 \in Totals : AssertSumsToOne(wins[p2]))
    /\ Record("third_player_policy_probability",
              {<<"third_player_probability", idx>>})
    /\ UNCHANGED <<params, third_player_probability,
                   second_player_probability, second_player_policy_probability,
                   first_player_probability, first_player_policy_probability>>

\* One value of p1 in "Calculate the 2nd player's options".
SecondRaw ==
    /\ pc = "second_raw"
    /\ UNCHANGED <<passes, others>>
    /\ \E row \in {[spin1 \in Totals |-> [spinAgain \in 0..1 |->
                      SecondCell(idx, spin1, spinAgain)]]} :
          /\ second_player_probability' =
                [second_player_probability EXCEPT ![idx] = row]
          /\ Advance("second_raw", WheelSize,
                 \A s \in Totals : AssertSumsToOne(row[s][1]))
    /\ Record("second_player_probability",
              {<<"third_player_policy_probability", idx>>})
    /\ UNCHANGED <<params, third_player_probability,
                   third_player_policy_probability,
                   second_player_policy_probability,
                   first_player_probability, first_player_policy_probability>>

\* One value of p1 in "Calculate the second person win rate based on their
\* policy".
SecondPolicy ==
    /\ pc = "second_policy"
    /\ UNCHANGED <<passes, others>>
    /\ \E wins \in {SecondCollapseWins(idx)} :
          /\ second_player_policy_probability' =
                [second_player_policy_probability EXCEPT
                    ![idx] = SecondCollapseCell(idx, wins)]
          /\ Advance("second_policy", WheelSize, AssertSumsToOne(wins))
    /\ Record("second_player_policy_probability",
              {<<"second_player_probability", idx>>})
    /\ UNCHANGED <<params, third_player_probability,
                   third_player_policy_probability, second_player_probability,
                   first_player_probability, first_player_policy_probability>>

\* One value of spin1 in "Calculate the 1st player's options".
FirstRaw ==
    /\ pc = "first_raw"
    /\ UNCHANGED <<passes, others>>
    /\ \E row \in {[spinAgain \in 0..1 |-> FirstCell(idx, spinAgain)]} :
          /\ first_player_probability' =
                [first_player_probability EXCEPT ![idx] = row]
          /\ Advance("first_raw", WheelSize, AssertSumsToOne(row[1]))
    /\ Record("first_player_probability",
              {<<"second_player_policy_probability", t>> :
                   t \in TotalsRead(idx)})
    /\ UNCHANGED <<params, third_player_probability,
                   third_player_policy_probability, second_player_probability,
                   second_player_policy_probability,
                   first_player_policy_probability>>

\* "Calculate the first person win rate based on their policy".
FirstPolicy ==
    /\ pc = "first_policy"
    /\ UNCHANGED <<passes, others>>
    /\ \E wins \in {FirstCollapseWins} :
          /\ first_player_policy_probability' = FirstCollapseCell(wins)
          /\ Advance("first_policy", 0, AssertSumsToOne(wins))
    /\ Record("first_player_policy_probability",
              {<<"first_player_probability", s>> : s \in Totals})
    /\ UNCHANGED <<params, third_player_probability,
                   third_player_policy_probability, second_player_probability,
                   second_player_policy_probability, first_player_probability>>

Next ==
    \/ StartPass
    \/ ThirdRaw
    \/ ThirdPolicy
    \/ SecondRaw
    \/ SecondPolicy
    \/ FirstRaw
    \/ FirstPolicy

Spec == Init /\ [][Next]_vars

(***************************************************************************)
(* A caller that solves again: initialize_dp_tables is called once more    *)
(* with the same three policies, on the global tables as the pass before   *)
(* left them.                                                              *)
(***************************************************************************)
MaxPasses == 2

RepeatPass ==
    /\ pc = "done"
    /\ passes < MaxPasses
    /\ passes' = passes + 1
    /\ pc' = Blocks[1]
    /\ idx' = 0
    /\ written' = [t \in TableNames |-> {}]
    /\ reads' = {}
    /\ UNCHANGED <<params, tables, others>>

NextRepeat ==
    \/ StartPass
    \/ ThirdRaw
    \/ ThirdPolicy
    \/ SecondRaw
    \/ SecondPolicy
    \/ FirstRaw
    \/ FirstPolicy
    \/ RepeatPass

SpecRepeat == Init /\ [][NextRepeat]_vars

(***************************************************************************)
(* simulate_game: one iteration of its loop, a simulated game.  The        *)
(* policies passed are fixed ones, which read no table.                    *)
(***************************************************************************)
SimInputs ==
    { <<Coin, Coin, Coin>>,
      <<Threshold(MaxThreshold), Coin, Skip>>,
      <<Coin, Threshold(MaxThreshold), Threshold(0)>> }

\* random_decision(prob): rand() % denominator < numerator.  The values it
\* can return.
random_decision(prob) ==
    { b \in BOOLEAN : /\ b => numerator(prob) > 0
                      /\ ~b => numerator(prob) < denominator(prob) }

\* The value of the int declared inside a turn's block when the block ends:
\* the first spin, plus the second one if taken, 0 on a bust.
TurnTotal(spin, again, spin2) ==
    IF ~again THEN spin
    ELSE IF spin + spin2 > WheelSize THEN 0 ELSE spin + spin2

\* The body of "Player n's turn" after the declaration "int pN_total = 0" of
\* the function scope: the if statement.  Its block declares an int of the
\* same name, which takes the spins and ends with the block; turn_total[n]
\* keeps its last value, 0 if the first spin was declined.  policy[spin] is
\* what the player's policy returns for the spin, with the arguments the
\* call passes.
Turn(n, policy) ==
    \E skip \in random_decision(policy[0]) :
        IF skip
          THEN turn_total' = [turn_total EXCEPT ![n] = 0]
          ELSE \E spin \in Spins :
               \E again \in random_decision(policy[spin]) :
               \E spin2 \in Spins :
                   turn_total' =
                       [turn_total EXCEPT ![n] = TurnTotal(spin, again, spin2)]

\* main calls simulate_game with three policies; the first game begins.
SimStart ==
    /\ sim_pc = "off"
    /\ \E in \in SimInputs :
          /\ third_player_policy' = in[1]
          /\ second_player_policy' = in[2]
          /\ first_player_policy' = in[3]
    /\ sim_pc' = "p1"
    /\ UNCHANGED <<pc, idx, tables, history, fracvars, assumvars,
                   p1_total, p2_total, p3_total, turn_total, policy_args, winner>>

Player1Turn ==
    /\ sim_pc = "p1"
    /\ p1_total' = 0
    /\ Turn(1, [spin \in 0..WheelSize |-> FirstPolicyCall(spin)])
    /\ policy_args' = <<>>
    /\ sim_pc' = "p2"
    /\ UNCHANGED <<pc, idx, params, tables, history, fracvars, assumvars,
                   p2_total, p3_total, winner>>

Player2Turn ==
    /\ sim_pc = "p2"
    /\ p2_total' = 0
    /\ Turn(2, [spin \in 0..WheelSize |-> SecondPolicyCall(p1_total, spin)])
    /\ policy_args' = Append(policy_args, <<p1_total>>)
    /\ sim_pc' = "p3"
    /\ UNCHANGED <<pc, idx, params, tables, history, fracvars, assumvars,
                   p1_total, p3_total, winner>>

Player3Turn ==
    /\ sim_pc = "p3"
    /\ p3_total' = 0
    /\ Turn(3, [spin \in 0..WheelSize |->
                    ThirdPolicyCall(p1_total, p2_total, spin)])
    /\ policy_args' = Append(policy_args, <<p1_total, p2_total>>)
    /\ sim_pc' = "winner"
    /\ UNCHANGED <<pc, idx, params, tables, history, fracvars, assumvars,
                   p1_total, p2_total, winner>>

max(a, b) == IF a < b THEN b ELSE a

\* "Determine winner": the player whose counter the if chain increments when
\* rand() % num_winners is selected_winner.
SelectedWinner(selected_winner) ==
    LET max_score == max(p1_total, max(p2_total, p3_total))
        left2 == IF p1_total = max_score THEN selected_winner - 1
                 ELSE selected_winner
    IN  IF p1_total = max_score /\ selected_winner = 0 THEN 1
        ELSE IF p2_total = max_score /\ left2 = 0 THEN 2
        ELSE IF p3_total = max_score THEN 3
        ELSE 0

DetermineWinner ==
    /\ sim_pc = "winner"
    /\ LET max_score == max(p1_total, max(p2_total, p3_total))
           num_winners == (IF p1_total = max_score THEN 1 ELSE 0)
                            + (IF p2_total = max_score THEN 1 ELSE 0)
                            + (IF p3_total = max_score THEN 1 ELSE 0)
       IN  \E selected_winner \in 0..(num_winners - 1) :
               winner' = SelectedWinner(selected_winner)
    /\ sim_pc' = "counted"
    /\ UNCHANGED <<pc, idx, params, tables, history, fracvars, assumvars,
                   p1_total, p2_total, p3_total, turn_total, policy_args>>

\* The loop goes on to the next game.
NextGame ==
    /\ sim_pc = "counted"
    /\ sim_pc' = "p1"
    /\ p1_total' = 0
    /\ p2_total' = 0
    /\ p3_total' = 0
    /\ turn_total' = <<0, 0, 0>>
    /\ policy_args' = <<>>
    /\ winner' = 0
    /\ UNCHANGED <<pc, idx, params, tables, history, fracvars, assumvars>>

\* The program outside simulate_game, left out: the tables are not read.
NoPass ==
    /\ pc = "off"
    /\ idx = 0
    /\ third_player_policy = Optimal
    /\ second_player_policy = Optimal
    /\ first_player_policy = Optimal
    /\ third_player_probability = <<>>
    /\ third_player_policy_probability = <<>>
    /\ second_player_probability = <<>>
    /\ second_player_policy_probability = <<>>
    /\ first_player_probability = <<>>
    /\ first_player_policy_probability = <<>>
    /\ written = <<>>
    /\ reads = {}
    /\ passes = 0

InitSimulate == NoPass /\ NoSimulation /\ NoFraction /\ NoAssumption

NextSimulate ==
    \/ SimStart
    \/ Player1Turn
    \/ Player2Turn
    \/ Player3Turn
    \/ DetermineWinner
    \/ NextGame

SpecSimulate == InitSimulate /\ [][NextSimulate]_vars

(***************************************************************************)
(* Fraction with the width of its fields.  numerator and denominator are   *)
(* long long: two's complement, 64 bits in the program and IntBits bits    *)
(* here.  Every intermediate the C++ forms is wrapped to that width; an    *)
(* intermediate that does not fit is signed overflow, undefined behaviour, *)
(* on which a build either goes on with the wrapped value or traps.        *)
(***************************************************************************)
IntBits == 8

Modulus == 2 ^ IntBits
MaxInt == 2 ^ (IntBits - 1) - 1
MinInt == -(2 ^ (IntBits - 1))

Fits(x) == MinInt <= x /\ x <= MaxInt

\* The value of the given width congruent to x.
Wrap(x) ==
    LET r == ((x % Modulus) + Modulus) % Modulus
    IN  IF r > MaxInt THEN r - Modulus ELSE r

\* What an operation hands back: a Fraction (num, den) or an exception, and
\* whether undefined behaviour was met on the way.
Value(num, den, ub) ==
    [kind |-> "value", what |-> "", num |-> num, den |-> den, ub |-> ub]
Throw(what, ub) ==
    [kind |-> "throw", what |-> what, num |-> 0, den |-> 0, ub |-> ub]

\* simplify() without the step that moves the sign to the numerator.
simplifyLL_KeepsSign(num, denom, ub) ==
    IF denom = 0 THEN Throw("Denominator cannot be zero", ub)
    ELSE IF num = 0 THEN Value(0, 1, ub)
    ELSE LET common_divisor == Wrap(Gcd(Abs(num), Abs(denom)))
         IN  Value(num \div common_divisor, denom \div common_divisor,
                   ub \/ num = MinInt \/ denom = MinInt)

\* simplify() with the zero-numerator shortcut taken before the check of the
\* denominator.
simplifyLL_ZeroNumeratorFirst(num, denom, ub) ==
    IF num = 0 THEN Value(0, 1, ub)
    ELSE IF denom = 0 THEN Throw("Denominator cannot be zero", ub)
    ELSE LET common_divisor == Wrap(Gcd(Abs(num), Abs(denom)))
             n1 == num \div common_divisor
             d1 == denom \div common_divisor
             ub_abs == num = MinInt \/ denom = MinInt
         IN  IF d1 < 0
               THEN Value(Wrap(-n1), Wrap(-d1),
                          ub \/ ub_abs \/ ~Fits(-n1) \/ ~Fits(-d1))
               ELSE Value(n1, d1, ub \/ ub_abs)

\* simplify() on the fields (num, denom), after undefined behaviour or not.
simplifyLL(num, denom, ub) ==
    IF denom = 0 THEN Throw("Denominator cannot be zero", ub)
    ELSE IF num = 0 THEN Value(0, 1, ub)
    ELSE LET \* std::abs of the least value is undefined; std::gcd works on
             \* the magnitudes, and its result is converted back.
             common_divisor == Wrap(Gcd(Abs(num), Abs(denom)))
             n1 == num \div common_divisor
             d1 == denom \div common_divisor
             ub_abs == num = MinInt \/ denom = MinInt
         IN  IF d1 < 0
               THEN Value(Wrap(-n1), Wrap(-d1),
                          ub \/ ub_abs \/ ~Fits(-n1) \/ ~Fits(-d1))
               ELSE Value(n1, d1, ub \/ ub_abs)

\* Fraction(num, denom)
FractionLL(num, denom) == simplifyLL(num, denom, FALSE)

\* operator+, operator-, operator*, operator/ on x = <<numerator,
\* denominator>> and other.
PlusLL(x, other) ==
    LET p1 == x[1] * other[2]
        p2 == other[1] * x[2]
        new_num == Wrap(p1) + Wrap(p2)
        new_den == x[2] * other[2]
    IN  simplifyLL(Wrap(new_num), Wrap(new_den),
                   ~Fits(p1) \/ ~Fits(p2) \/ ~Fits(new_num) \/ ~Fits(new_den))

MinusLL(x, other) ==
    LET p1 == x[1] * other[2]
        p2 == other[1] * x[2]
        new_num == Wrap(p1) - Wrap(p2)
        new_den == x[2] * other[2]
    IN  simplifyLL(Wrap(new_num), Wrap(new_den),
                   ~Fits(p1) \/ ~Fits(p2) \/ ~Fits(new_num) \/ ~Fits(new_den))

TimesLL(x, other) ==
    LET new_num == x[1] * other[1]
        new_den == x[2] * other[2]
    IN  simplifyLL(Wrap(new_num), Wrap(new_den),
                   ~Fits(new_num) \/ ~Fits(new_den))

DivideLL(x, other) ==
    IF other[1] = 0 THEN Throw("Division by zero", FALSE)
    ELSE LET new_num == x[1] * other[2]
             new_den == x[2] * other[1]
         IN  simplifyLL(Wrap(new_num), Wrap(new_den),
                        ~Fits(new_num) \/ ~Fits(new_den))

\* operator<=>: -1, 0 or 1 for less, equivalent, greater.
CompareLL(x, other) ==
    LET lhs == x[1] * other[2]
        rhs == other[1] * x[2]
        order == IF Wrap(lhs) < Wrap(rhs) THEN -1
                 ELSE IF Wrap(lhs) > Wrap(rhs) THEN 1 ELSE 0
    IN  Value(order, 1, ~Fits(lhs) \/ ~Fits(rhs))

\* operator==
EqualsLL(x, other) == x[1] = other[1] /\ x[2] = other[2]

(***************************************************************************)
(* Two Fraction instances, fx and fy, and the operations of the class      *)
(* applied to them.  fop is the last operation with its arguments and fres *)
(* what it gave: <<"value", f>>, <<"order", o>>, <<"bool", b>>,            *)
(* <<"throw", what>>, or <<"trap">> when a build that traps on overflow    *)
(* stopped the program.                                                    *)
(***************************************************************************)
Root == 2 ^ (IntBits \div 2)

FracInputs == {MinInt, -3, -1, 0, 1, 2, Root}

Outcomes(r) ==
    {IF r.kind = "value" THEN <<"value", <<r.num, r.den>>>>
                         ELSE <<"throw", r.what>>}
      \cup (IF r.ub THEN {<<"trap">>} ELSE {})

\* The values the constructor gives on FracInputs.
Constructed ==
    {<<r.num, r.den>> :
        r \in {q \in {FractionLL(u[1], u[2]) : u \in FracInputs \X FracInputs} :
                  q.kind = "value"}}

\* Nothing in the repository catches an exception: a throw ends the program
\* as a trap does.
Running == fres[1] \notin {"trap", "throw"}

\* Both instances hold what a constructor call on FracInputs left in them:
\* an instance that was assigned to is made anew before it is used again.
Fresh == fx \in Constructed /\ fy \in Constructed

Arithmetic(op, x, other) ==
    CASE op = "+" -> PlusLL(x, other)
      [] op = "-" -> MinusLL(x, other)
      [] op = "*" -> TimesLL(x, other)
      [] op = "/" -> DivideLL(x, other)

\* Fraction fx(num, denom); or Fraction fy(num, denom);
Construct ==
    /\ Running
    /\ \E num \in FracInputs, denom \in FracInputs, into \in {"fx", "fy"} :
         \E out \in Outcomes(FractionLL(num, denom)) :
            /\ into = "fy" => fx \in Constructed
            /\ fop' = <<"Fraction", num, denom>>
            /\ fres' = out
            /\ fx' = IF out[1] = "value" /\ into = "fx" THEN out[2] ELSE fx
            /\ fy' = IF out[1] = "value" /\ into = "fy" THEN out[2] ELSE fy
    /\ UNCHANGED <<pc, idx, params, tables, history, simvars, assumvars>>

\* fx + fy, fx - fy, fx * fy, fx / fy
Operate ==
    /\ Running
    /\ Fresh
    /\ \E op \in {"+", "-", "*", "/"} :
         \E out \in Outcomes(Arithmetic(op, fx, fy)) :
            /\ fop' = <<op>>
            /\ fres' = out
    /\ UNCHANGED <<fx, fy>>
    /\ UNCHANGED <<pc, idx, params, tables, history, simvars, assumvars>>

\* fx <=> fy
Compare ==
    /\ Running
    /\ Fresh
    /\ \E r \in {CompareLL(fx, fy)} :
         /\ fop' = <<"<=>">>
         /\ fres' \in {<<"order", r.num>>}
                        \cup (IF r.ub THEN {<<"trap">>} ELSE {})
    /\ UNCHANGED <<fx, fy>>
    /\ UNCHANGED <<pc, idx, params, tables, history, simvars, assumvars>>

\* fx == fy
Equate ==
    /\ Running
    /\ Fresh
    /\ fop' = <<"==">>
    /\ fres' = <<"bool", EqualsLL(fx, fy)>>
    /\ UNCHANGED <<fx, fy>>
    /\ UNCHANGED <<pc, idx, params, tables, history, simvars, assumvars>>

\* fx.set(num, denom): the fields are assigned before simplify() runs, so
\* they keep the raw arguments when it throws.
Set ==
    /\ Running
    /\ \E num \in FracInputs, denom \in FracInputs :
         \E out \in Outcomes(simplifyLL(num, denom, FALSE)) :
            /\ fop' = <<"set", num, denom>>
            /\ fres' = out
            /\ fx' = IF out[1] = "value" THEN out[2] ELSE <<num, denom>>
    /\ UNCHANGED fy
    /\ UNCHANGED <<pc, idx, params, tables, history, simvars, assumvars>>

\* fx += fy, fx -= fy, fx *= fy, fx /= fy: *this = *this op other.  Each
\* instance takes one compound assignment after its construction.
CompoundAssign ==
    /\ Running
    /\ Fresh
    /\ \E op \in {"+", "-", "*", "/"} :
         \E out \in Outcomes(Arithmetic(op, fx, fy)) :
            /\ fop' = <<op \o "=">>
            /\ fres' = out
            /\ fx' = IF out[1] = "value" THEN out[2] ELSE fx
    /\ UNCHANGED fy
    /\ UNCHANGED <<pc, idx, params, tables, history, simvars, assumvars>>

InitFraction == NoPass /\ NoSimulation /\ NoFraction /\ NoAssumption

NextFraction ==
    \/ Construct
    \/ Operate
    \/ Compare
    \/ Equate
    \/ Set
    \/ CompoundAssign

SpecFraction == InitFraction /\ [][NextFraction]_vars

(***************************************************************************)
(* Assumption: an assumed value with the bounds within which every         *)
(* comparison made so far comes out the same.  An Assumption is the record *)
(* of its fields; a comparison gives <<result, the Assumption after it>>.  *)
(***************************************************************************)
FracLt(x, y) == FracCmp(x, y) < 0

\* std::max and std::min on Fractions
FracMax(a, b) == IF FracLt(a, b) THEN b ELSE a
FracMin(a, b) == IF FracLt(b, a) THEN b ELSE a

\* Assumption(initial_value, var_name) with the default bounds
NewAssumption(initial_value) ==
    [value |-> initial_value,
     min_bound |-> Fraction(0, 100),
     max_bound |-> Fraction(100, 100)]

\* operator> storing the threshold itself as the new bound.
AssumptionGt_Overwrites(this, other) ==
    IF FracGt(this.value, other)
      THEN <<TRUE, [this EXCEPT !.min_bound = other]>>
      ELSE <<FALSE, [this EXCEPT !.max_bound = other]>>

\* bool operator>(const Fraction& other)
AssumptionGt(this, other) ==
    IF FracGt(this.value, other)
      THEN <<TRUE, [this EXCEPT !.min_bound = FracMax(this.min_bound, other)]>>
      ELSE <<FALSE, [this EXCEPT !.max_bound = FracMin(this.max_bound, other)]>>

\* operator< storing the threshold itself as the new bound.
AssumptionLt_Overwrites(this, other) ==
    IF FracLt(this.value, other)
      THEN <<TRUE, [this EXCEPT !.max_bound = other]>>
      ELSE <<FALSE, [this EXCEPT !.min_bound = other]>>

\* bool operator<(const Fraction& other)
AssumptionLt(this, other) ==
    IF FracLt(this.value, other)
      THEN <<TRUE, [this EXCEPT !.max_bound = FracMin(this.max_bound, other)]>>
      ELSE <<FALSE, [this EXCEPT !.min_bound = FracMax(this.min_bound, other)]>>

\* operator<= recording the threshold in the bound of the other side.
AssumptionLe_OtherBound(this, other) ==
    IF FracGt(this.value, other)
      THEN <<FALSE, [this EXCEPT !.max_bound = FracMin(this.max_bound, other)]>>
      ELSE <<TRUE, [this EXCEPT !.min_bound = FracMax(this.min_bound, other)]>>

\* operator>= answering from the value without recording the threshold.
AssumptionGe_KeepsBounds(this, other) ==
    <<~FracLt(this.value, other), this>>

\* operator>= is !(*this < other), operator<= is !(*this > other)
AssumptionGe(this, other) ==
    LET r == AssumptionLt(this, other) IN <<~r[1], r[2]>>
AssumptionLe(this, other) ==
    LET r == AssumptionGt(this, other) IN <<~r[1], r[2]>>

\* The operators by name; "F>" is the friend Fraction > Assumption, and so
\* on: lhs > rhs is rhs < lhs, lhs < rhs is rhs > lhs, lhs >= rhs is
\* rhs <= lhs, lhs <= rhs is rhs >= lhs.
CompareOps == {">", "<", ">=", "<=", "F>", "F<", "F>=", "F<="}

AssumptionCompare(op, this, other) ==
    CASE op = ">" -> AssumptionGt(this, other)
      [] op = "<" -> AssumptionLt(this, other)
      [] op = ">=" -> AssumptionGe(this, other)
      [] op = "<=" -> AssumptionLe(this, other)
      [] op = "F>" -> AssumptionLt(this, other)
      [] op = "F<" -> AssumptionGt(this, other)
      [] op = "F>=" -> AssumptionLe(this, other)
      [] op = "F<=" -> AssumptionGe(this, other)

MaxComparisons == 3

AssumedValues == {Fraction(1, 4), Fraction(1, 2)}
Thresholds == {Fraction(1, 4), Fraction(1, 2), Fraction(3, 4)}

\* The Assumption held in the variables.
TheAssumption ==
    [value |-> value, min_bound |-> min_bound, max_bound |-> max_bound]

\* One comparison of the Assumption with a threshold.  comparisons records
\* <<operator, threshold, result>>, before the bounds it found.
Comparison ==
    /\ Len(comparisons) < MaxComparisons
    /\ \E op \in CompareOps, other \in Thresholds :
         \E r \in {AssumptionCompare(op, TheAssumption, other)} :
            /\ min_bound' = r[2].min_bound
            /\ max_bound' = r[2].max_bound
            /\ comparisons' = Append(comparisons, <<op, other, r[1]>>)
    /\ before' = <<min_bound, max_bound>>
    /\ verdict' = <<>>
    /\ UNCHANGED <<value, tie_idx>>
    /\ UNCHANGED <<pc, idx, params, tables, history, simvars, fracvars>>

InitAssumption ==
    /\ NoPass /\ NoSimulation /\ NoFraction
    /\ \E initial_value \in AssumedValues :
         \E a \in {NewAssumption(initial_value)} :
            /\ value = a.value
            /\ min_bound = a.min_bound
            /\ max_bound = a.max_bound
    /\ comparisons = <<>>
    /\ before = <<>>
    /\ verdict = <<>>
    /\ tie_idx = 0

NextAssumption == Comparison

SpecAssumption == InitAssumption /\ [][NextAssumption]_vars

(***************************************************************************)
(* Validation of an Assumption against a true value.                       *)
(***************************************************************************)
FracLe(x, y) == FracCmp(x, y) <= 0

\* is_valid testing the lower bound only.
is_valid_LowerOnly(this, true_value) == FracLe(this.min_bound, true_value)

\* is_valid with the endpoints left out.
is_valid_Strict(this, true_value) ==
    FracLt(this.min_bound, true_value) /\ FracLt(true_value, this.max_bound)

\* bool is_valid(Fraction true_value) const
is_valid(this, true_value) ==
    FracLe(this.min_bound, true_value) /\ FracLe(true_value, this.max_bound)

\* Assumption(initial_value, var_name, initial_min, initial_max)
NewAssumptionWithin(initial_value, initial_min, initial_max) ==
    [value |-> initial_value,
     min_bound |-> initial_min,
     max_bound |-> initial_max]

\* <<initial_value, initial_min, initial_max>> of the Assumptions validated:
\* the default bounds, bounds around the value, bounds that leave it out.
Constructions ==
    { <<Fraction(1, 2), Fraction(0, 100), Fraction(100, 100)>>,
      <<Fraction(1, 2), Fraction(1, 4), Fraction(3, 4)>>,
      <<Fraction(1, 4), Fraction(1, 2), Fraction(100, 100)>> }

TrueValues == {Fraction(1, 4), Fraction(1, 2), Fraction(3, 4)}

\* a.is_valid(true_value)
IsValid ==
    /\ \E true_value \in TrueValues :
          verdict' = <<true_value, is_valid(TheAssumption, true_value)>>
    /\ UNCHANGED <<value, min_bound, max_bound, comparisons, before, tie_idx>>
    /\ UNCHANGED <<pc, idx, params, tables, history, simvars, fracvars>>

InitValidate ==
    /\ NoPass /\ NoSimulation /\ NoFraction
    /\ \E c \in Constructions :
         \E a \in {NewAssumptionWithin(c[1], c[2], c[3])} :
            /\ value = a.value
            /\ min_bound = a.min_bound
            /\ max_bound = a.max_bound
    /\ comparisons = <<>>
    /\ before = <<>>
    /\ verdict = <<>>
    /\ tie_idx = 0

NextValidate ==
    \/ Comparison
    \/ IsValid

SpecValidate == InitValidate /\ [][NextValidate]_vars

(***************************************************************************)
(* The tie decisions of the third player in mainv1, for the parameter      *)
(* size2_win2 (the second mover's win rate with two participants): the     *)
(* loops over p1 and p2 compare the chance of not busting with the assumed *)
(* value at every state with p1 != p2 and tighten one bound, which is the  *)
(* comparison Fraction > Assumption.  tie_idx counts the states visited.   *)
(***************************************************************************)
TieStates == (WheelSize + 1) * (WheelSize + 1)

\* Fraction(20 - competition, 20) with competition = max(p1, p2)
TieThreshold(p1, p2) == Fraction(WheelSize - max(p1, p2), WheelSize)

\* init_size2_win2 of mainv1, and the assumed value 0.
TieAssumed == {Fraction(0, 1), Fraction(53, 100)}

\* One iteration of the loops over p1 and p2.
TieDecision ==
    /\ tie_idx < TieStates
    /\ tie_idx' = tie_idx + 1
    /\ \E p1 \in {tie_idx \div (WheelSize + 1)},
          p2 \in {tie_idx % (WheelSize + 1)} :
         IF p1 # p2
           THEN \E other \in {TieThreshold(p1, p2)} :
                \E r \in {AssumptionCompare("F>", TheAssumption, other)} :
                   /\ min_bound' = r[2].min_bound
                   /\ max_bound' = r[2].max_bound
                   /\ comparisons' = Append(comparisons, <<"F>", other, r[1]>>)
                   /\ before' = <<min_bound, max_bound>>
           ELSE UNCHANGED <<min_bound, max_bound, comparisons, before>>
    /\ verdict' = <<>>
    /\ UNCHANGED value
    /\ UNCHANGED <<pc, idx, params, tables, history, simvars, fracvars>>

InitTies ==
    /\ NoPass /\ NoSimulation /\ NoFraction
    /\ \E initial_value \in TieAssumed :
         \E a \in {NewAssumption(initial_value)} :
            /\ value = a.value
            /\ min_bound = a.min_bound
            /\ max_bound = a.max_bound
    /\ comparisons = <<>>
    /\ before = <<>>
    /\ verdict = <<>>
    /\ tie_idx = 0

NextTies ==
    \/ TieDecision
    \/ IsValid

SpecTies == InitTies /\ [][NextTies]_vars

(***************************************************************************)
(* The solver of dynamic_programming.cpp.  Its initialize_dp_tables fills  *)
(* the same six tables.  The third player's options are worked out from    *)
(* win_prob_player3 alone, and each collapse copies the [0][0] cell when   *)
(* the policy's value at spin 0 is 1; the two blocks of options of the     *)
(* second and the first player are the statements of the other solver.     *)
(***************************************************************************)
\* win_prob_player3 of the "Don't spin again" branch.
DpThirdStop(p1, p2, spin) ==
    IF spin > p1 /\ spin > p2 THEN Fraction(1, 1)
    ELSE IF spin = p1 /\ spin = p2 THEN Fraction(1, 3)
    ELSE IF spin = max(p1, p2) THEN Fraction(1, 2)
    ELSE Fraction(0, 1)

\* One iteration of the "Spin again" loop: the += on win_prob_player3.
DpThirdSpinStep(acc, p1, p2, spin, new_spin) ==
    IF new_spin + spin > WheelSize
      THEN FracAdd(acc, FracMul(prob_new_spin,
                                Fraction(IF p1 + p2 = 0 THEN 1 ELSE 0, 3)))
    ELSE IF new_spin + spin > p1 /\ new_spin + spin > p2
      THEN FracAdd(acc, FracMul(prob_new_spin, Fraction(1, 1)))
    ELSE IF new_spin + spin = p1 /\ new_spin + spin = p2
      THEN FracAdd(acc, FracMul(prob_new_spin, Fraction(1, 3)))
    ELSE IF new_spin + spin = max(p1, p2)
      THEN FracAdd(acc, FracMul(prob_new_spin, Fraction(1, 2)))
    ELSE FracAdd(acc, FracMul(prob_new_spin, Fraction(0, 1)))

RECURSIVE DpThirdSpinLoop(_, _, _, _, _)
DpThirdSpinLoop(acc, p1, p2, spin, new_spin) ==
    IF new_spin > WheelSize THEN acc
    ELSE Only({DpThirdSpinLoop(sum, p1, p2, spin, new_spin + 1) :
                  sum \in {DpThirdSpinStep(acc, p1, p2, spin, new_spin)}})

\* The cell stored for (p1, p2, spin, spinAgain): component 2 is
\* win_prob_player3, and the rest is halved between equal priors or given
\* to the larger one.
DpThirdCell(p1, p2, spin, spinAgain) ==
    LET win_prob_player3 ==
            IF spinAgain = 0 THEN DpThirdStop(p1, p2, spin)
            ELSE DpThirdSpinLoop(Fraction(0, 1), p1, p2, spin, 1)
        rest == FracSub(Fraction(1, 1), win_prob_player3)
        half == FracMul(Fraction(1, 2), rest)
        Stored(w0, w1, w2) == (0 :> w0) @@ (1 :> w1) @@ (2 :> w2)
    IN  IF p1 = p2 THEN Stored(half, half, win_prob_player3)
        ELSE IF p1 > p2 THEN Stored(rest, Fraction(0, 1), win_prob_player3)
        ELSE Stored(Fraction(0, 1), rest, win_prob_player3)

\* The cells stored for one value of p1.
DpThirdRow(p1) ==
    [p2 \in Totals |-> [spin \in Totals |->
        [spinAgain \in 0..1 |-> DpThirdCell(p1, p2, spin, spinAgain)]]]

\* A collapse: the [0][0] cell and "continue" when the policy's value at
\* spin 0 is Fraction(1, 1), the three accumulators otherwise.
DpCollapseCell(prob_of_first_spin, D, wins) ==
    IF FracEq(prob_of_first_spin, Fraction(1, 1)) THEN D[0][0] ELSE wins

\* The assert after the loop over the spins is not reached when the cell
\* was copied.
DpAssert(prob_of_first_spin, wins) ==
    FracEq(prob_of_first_spin, Fraction(1, 1)) \/ AssertSumsToOne(wins)

\* The policy triples this solver is started with (third, second, first).
DpInputs ==
    { <<Optimal, Optimal, Optimal>>,
      <<Skip, Threshold(MaxThreshold), Skip>>,
      <<Threshold(MaxThreshold), Skip, Threshold(0)>>,
      <<Coin, Skip, Threshold(MaxThreshold)>> }

\* main calls initialize_dp_tables with three policies.
DpStartPass ==
    /\ pc = "idle"
    /\ \E in \in DpInputs :
          /\ third_player_policy' = in[1]
          /\ second_player_policy' = in[2]
          /\ first_player_policy' = in[3]
    /\ pc' = Blocks[1]
    /\ idx' = 0
    /\ written' = [t \in TableNames |-> {}]
    /\ reads' = {}
    /\ passes' = 1
    /\ UNCHANGED <<tables, others>>

\* One value of p1 in "Calculate the 3rd player's options".
DpThirdRaw ==
    /\ pc = "third_raw"
    /\ UNCHANGED <<passes, others>>
    /\ \E row \in {DpThirdRow(idx)} :
          third_player_probability' =
              [third_player_probability EXCEPT ![idx] = row]
    /\ Advance("third_raw", WheelSize, TRUE)
    /\ Record("third_player_probability", {})
    /\ UNCHANGED <<params, third_player_policy_probability,
                   second_player_probability, second_player_policy_probability,
                   first_player_probability, first_player_policy_probability>>

\* One value of p1 in "Calculate third person win rate based on their policy".
DpThirdPolicy ==
    /\ pc = "third_policy"
    /\ UNCHANGED <<passes, others>>
    /\ \E wins \in {[p2 \in Totals |-> ThirdCollapseWins(idx, p2)]} :
          /\ third_player_policy_probability' =
                [third_player_policy_probability EXCEPT
                    ![idx] = [p2 \in Totals |->
                        DpCollapseCell(ThirdPolicyCall(idx, p2, 0),
                                       third_player_probability[idx][p2],
                                       wins[p2])]]
          /\ Advance("third_policy", WheelSize,
                 \A p2 \in Totals :
                     DpAssert(ThirdPolicyCall(idx, p2, 0), wins[p2]))
    /\ Record("third_player_policy_probability",
              {<<"third_player_probability", idx>>})
    /\ UNCHANGED <<params, third_player_probability,
                   second_player_probability, second_player_policy_probability,
                   first_player_probability, first_player_policy_probability>>

\* One value of p1 in "Calculate the second person win rate based on their
\* policy".
DpSecondPolicy ==
    /\ pc = "second_policy"
    /\ UNCHANGED <<passes, others>>
    /\ \E wins \in {SecondCollapseWins(idx)} :
          /\ second_player_policy_probability' =
                [second_player_policy_probability EXCEPT
                    ![idx] = DpCollapseCell(SecondPolicyCall(idx, 0),
                                            second_player_probability[idx],
                                            wins)]
          /\ Advance("second_policy", WheelSize,
                     DpAssert(SecondPolicyCall(idx, 0), wins))
    /\ Record("second_player_policy_probability",
              {<<"second_player_probability", idx>>})
    /\ UNCHANGED <<params, third_player_probability,
                   third_player_policy_probability, second_player_probability,
                   first_player_probability, first_player_policy_probability>>

\* "Calculate the first person win rate based on their policy".
DpFirstPolicy ==
    /\ pc = "first_policy"
    /\ UNCHANGED <<passes, others>>
    /\ \E wins \in {FirstCollapseWins} :
          /\ first_player_policy_probability' =
                DpCollapseCell(FirstPolicyCall(0), first_player_probability,
                               wins)
          /\ Advance("first_policy", 0, DpAssert(FirstPolicyCall(0), wins))
    /\ Record("first_player_policy_probability",
              {<<"first_player_probability", s>> : s \in Totals})
    /\ UNCHANGED <<params, third_player_probability,
                   third_player_policy_probability, second_player_probability,
                   second_player_policy_probability, first_player_probability>>

NextDp ==
    \/ DpStartPass
    \/ DpThirdRaw
    \/ DpThirdPolicy
    \/ SecondRaw
    \/ DpSecondPolicy
    \/ FirstRaw
    \/ DpFirstPolicy

SpecDp == Init /\ [][NextDp]_vars

(***************************************************************************)
(* Properties.                                                             *)
(***************************************************************************)
SumsToOne(c) == Sum3(c) = One

\* C1: when a solve pass has completed, the three win probabilities of
\* every cell of each of the six tables sum to exactly 1, the spin = 0 and
\* stop-branch cells included.
C1_EveryCellSumsToOne ==
    pc = "done" =>
        /\ \A p1 \in Totals, p2 \in Totals, s \in Totals, a \in 0..1 :
              SumsToOne(third_player_probability[p1][p2][s][a])
        /\ \A p1 \in Totals, p2 \in Totals :
              SumsToOne(third_player_policy_probability[p1][p2])
        /\ \A p1 \in Totals, s \in Totals, a \in 0..1 :
              SumsToOne(second_player_probability[p1][s][a])
        /\ \A p1 \in Totals : SumsToOne(second_player_policy_probability[p1])
        /\ \A s \in Totals, a \in 0..1 : SumsToOne(first_player_probability[s][a])
        /\ SumsToOne(first_player_policy_probability)

\* A completed pass in which every block met a non-optimal policy, and the
\* final triple is not a trivial one.
C1_Witness ==
    /\ pc = "done"
    /\ first_player_policy = Coin
    /\ third_player_policy = Skip
    /\ first_player_policy_probability[0] # Zero
    /\ first_player_policy_probability[1] # Zero

\* The answer that looks at the participant's own component of a first-spin
\* entry D: spin again (1) iff strictly better than stopping, else stop (0).
OwnChoice(D, own) ==
    IF FracGt(D[1][own], D[0][own]) THEN Fraction(1, 1) ELSE Fraction(0, 1)

\* C2: each optimal policy, called with a first spin taken, answers "spin
\* again" exactly when the participant's OWN win probability in the
\* spin-again cell strictly exceeds its own win probability in the stop cell.
C2_OwnWinProbabilityDecides ==
    pc = "done" =>
        /\ \A p1 \in Totals, p2 \in Totals, s \in Spins :
              third_player_optimal_policy(p1, p2, s)
                  = OwnChoice(third_player_probability[p1][p2][s], 2)
        /\ \A p1 \in Totals, s \in Spins :
              second_player_optimal_policy(p1, s)
                  = OwnChoice(second_player_probability[p1][s], 1)
        /\ \A s \in Spins :
              first_player_optimal_policy(s)
                  = OwnChoice(first_player_probability[s], 0)

(***************************************************************************)
(* The replay of the game by two tied participants, in their original      *)
(* order: the same backward induction with one stage less.  `tie` is the   *)
(* pair of win probabilities a tie of the two is worth (it is a replay of  *)
(* this same game).  Participant 0 spins first, participant 1 second.      *)
(***************************************************************************)
Pair(a, b) == <<a, b>>

\* Finest stage, stop branch: compare own total s to the prior total a.
TwoStop(a, s, tie) ==
    IF s > a THEN Pair(Zero, One)
    ELSE IF s < a THEN Pair(One, Zero)
    ELSE tie

PairAdd(x, y) == Pair(FracAdd(x[1], y[1]), FracAdd(x[2], y[2]))

RECURSIVE TwoAverage(_, _, _, _)
\* Uniform integration of cell[new total] over the next faces lo..hi, from
\* the own total s; a total above the ceiling is a bust, 0.
TwoAverage(cell, s, lo, hi) ==
    IF lo = hi
      THEN LET t == IF s + lo > WheelSize THEN 0 ELSE s + lo
           IN  Pair(FracMul(Fraction(1, WheelSize), cell[t][1]),
                    FracMul(Fraction(1, WheelSize), cell[t][2]))
      ELSE PairAdd(TwoAverage(cell, s, lo, (lo + hi) \div 2),
                   TwoAverage(cell, s, (lo + hi) \div 2 + 1, hi))

RECURSIVE Tabulated(_, _, _)
\* The function f on lo..hi, with every value worked out once.
Tabulated(f, lo, hi) ==
    IF lo = hi THEN lo :> f[lo]
    ELSE Tabulated(f, lo, (lo + hi) \div 2)
           @@ Tabulated(f, (lo + hi) \div 2 + 1, hi)

\* A stage's collapsed cell from its stop cells, under the optimal policy of
\* participant `own` (1 or 2): the first spin is always taken, and the
\* second one iff that is strictly better for `own`.
TwoCollapse(stop, own) ==
    Only({ TwoAverage(chosen, 0, 1, WheelSize) :
             chosen \in
               { Tabulated([s \in Totals |->
                               IF FracGt(again[s][own], stop[s][own])
                                 THEN again[s] ELSE stop[s]],
                           0, WheelSize) :
                   again \in
                     { Tabulated([s \in Totals |-> TwoAverage(stop, s, 1, WheelSize)],
                                 0, WheelSize) } } })

\* The stop cells of the participant who spins second, the first one
\* holding the total a.
TwoSecondStop(a, tie) ==
    Tabulated([s \in Totals |-> TwoStop(a, s, tie)], 0, WheelSize)

\* The win probabilities of the two-participant game: <<of the participant
\* who spins first, of the one who spins second>>.
TwoPlayerGame(tie) ==
    Only({ TwoCollapse(second, 1) :
             second \in
               { Tabulated([a \in Totals |->
                               Only({ TwoCollapse(stop, 2) :
                                        stop \in { TwoSecondStop(a, tie) } })],
                           0, WheelSize) } })

\* The pairs <<tied earlier player, third player>> that the stop cells of the
\* rows written so far give to a two-way tie with the third player.
TwoWayTieValues ==
    { Pair(third_player_probability[t[1]][t[2]][IF t[1] >= t[2] THEN t[1] ELSE t[2]][0]
               [IF t[1] >= t[2] THEN 0 ELSE 1],
           third_player_probability[t[1]][t[2]][IF t[1] >= t[2] THEN t[1] ELSE t[2]][0][2]) :
        t \in { u \in written["third_player_probability"] \X Totals : u[1] # u[2] } }

\* C3: in a two-way tie of the third participant with the strictly higher
\* prior total, the two tied participants get the win probabilities of the
\* game replayed by the two of them in their original order (a pair that
\* the replay itself, valuing its own ties by it, yields), and the untied
\* participant gets 0.
C3_TwoWayTieIsReplay ==
    /\ \A p1 \in written["third_player_probability"], p2 \in Totals :
           p1 # p2 =>
               third_player_probability[p1][p2][IF p1 >= p2 THEN p1 ELSE p2][0]
                   [IF p1 >= p2 THEN 1 ELSE 0] = Zero
    /\ \A assigned \in TwoWayTieValues : TwoPlayerGame(assigned) = assigned

\* The rows of the finest stage's raw table stored so far in this pass.
ThirdWritten == written["third_player_probability"]

\* C4: in the finest stage's stop branch, when the third participant's total
\* equals both prior totals (all zero included), the stored distribution is
\* exactly (1/3, 1/3, 1/3).
C4_ThreeWayTieIsThirds ==
    \A p \in ThirdWritten, i \in Players :
        third_player_probability[p][p][p][0][i] = Fraction(1, 3)

\* The whole raw table of the finest stage is stored, the all-zero and the
\* all-twenty three-way ties with it.
C4_Witness ==
    /\ ThirdWritten = Totals
    /\ third_player_probability[0][0][0][0][0] = Fraction(1, 3)
    /\ third_player_probability[WheelSize][WheelSize][WheelSize][0][2] = Fraction(1, 3)

\* C5: in the finest stage's stop branch with p1 # p2, a third total
\* strictly above max(p1, p2) stores (0, 0, 1), and one strictly below it
\* stores 1 for the holder of the higher prior total and 0 for the others.
C5_StrictComparisonDecides ==
    \A p1 \in ThirdWritten, p2 \in Totals, s \in Totals :
        p1 # p2 =>
            LET cell == third_player_probability[p1][p2][s][0]
                higher == IF p1 > p2 THEN 0 ELSE 1
                max_prior == IF p1 > p2 THEN p1 ELSE p2
            IN  /\ s > max_prior =>
                    cell[0] = Zero /\ cell[1] = Zero /\ cell[2] = One
                /\ s < max_prior =>
                    cell[higher] = One /\ cell[1 - higher] = Zero /\ cell[2] = Zero

\* The whole raw table is stored; the second player holds the higher prior
\* total and the third one stopped below it, and above it.
C5_Witness ==
    /\ ThirdWritten = Totals
    /\ third_player_probability[3][7][5][0][1] = One
    /\ third_player_probability[3][7][9][0][2] = One
    /\ third_player_probability[7][3][5][0][0] = One

\* The raw block b has just stored its last row.
BlockComplete(b) == pc = BlockAfter(b) /\ idx = 0

\* The new total after face f from the own total s: above the ceiling it is
\* a bust, 0.
NewTotal(s, f) == IF s + f <= WheelSize THEN s + f ELSE 0

RECURSIVE FaceSum(_, _, _, _)
\* SUM over the faces 1..f of (1/WheelSize) * D[new total][stop][i].
FaceSum(D, s, i, f) ==
    IF f = 0 THEN Zero
    ELSE FracAdd(FaceSum(D, s, i, f - 1),
                 FracMul(Fraction(1, WheelSize), D[NewTotal(s, f)][0][i]))

\* The spin-again cell of D at the own total s is the uniform average of D's
\* stop cells at the new totals.
SpinAgainIsAverage(D, s) ==
    \A i \in Players : D[s][1][i] = FaceSum(D, s, i, WheelSize)

\* C6: in every stage, for every prior state and own total s in 0..20, the
\* spin-again cell is the uniform average over the faces 1..20 of the
\* stage's stop cell at the new total, a bust counting as the total 0.
C6_SpinAgainAveragesStop ==
    /\ BlockComplete("third_raw") =>
          \A p1 \in Totals, p2 \in Totals, s \in Totals :
              SpinAgainIsAverage(third_player_probability[p1][p2], s)
    /\ BlockComplete("second_raw") =>
          \A p1 \in Totals, s \in Totals :
              SpinAgainIsAverage(second_player_probability[p1], s)
    /\ BlockComplete("first_raw") =>
          \A s \in Totals : SpinAgainIsAverage(first_player_probability, s)

\* The first player's raw table is complete in a pass with a fractional
\* policy behind it, and its spin-again cell at 15, where five faces bust,
\* differs from its stop cell.
C6_Witness ==
    /\ BlockComplete("first_raw")
    /\ second_player_policy = Coin
    /\ first_player_probability[15][1] # first_player_probability[15][0]
    /\ first_player_probability[15][1][0] # Zero

RECURSIVE MixSum(_, _, _, _)
\* SUM over s = 1..n of pi[s] * D[s][spin-again][i] + (1 - pi[s]) * D[s][stop][i].
MixSum(D, pi, i, n) ==
    IF n = 0 THEN Zero
    ELSE FracAdd(MixSum(D, pi, i, n - 1),
                 FracAdd(FracMul(pi[n], D[n][1][i]),
                         FracMul(FracSub(One, pi[n]), D[n][0][i])))

\* q * D[0][stop] + (1 - q) * (1/WheelSize) * MixSum, with q = pi[0].
Collapsed(D, pi) ==
    [i \in Players |->
        FracAdd(FracMul(pi[0], D[0][0][i]),
                FracMul(FracSub(One, pi[0]),
                        FracMul(Fraction(1, WheelSize), MixSum(D, pi, i, WheelSize))))]

\* C7: for every stage and prior state, the policy-collapsed distribution is
\* q * D[0][stop] + (1 - q) * (1/20) * SUM over s = 1..20 of
\* (pi(s) * D[s][spin-again] + (1 - pi(s)) * D[s][stop]), D the stage's raw
\* table at the prior state, q the policy's value at spin 0 and pi(s) its
\* value at spin s; and the three optimal policies return q = 0 at every
\* prior state.
C7_CollapseFormula ==
    /\ BlockComplete("third_policy") =>
          \A p1 \in Totals, p2 \in Totals :
              third_player_policy_probability[p1][p2]
                = Collapsed(third_player_probability[p1][p2],
                            [s \in Totals |-> ThirdPolicyCall(p1, p2, s)])
    /\ BlockComplete("second_policy") =>
          \A p1 \in Totals :
              second_player_policy_probability[p1]
                = Collapsed(second_player_probability[p1],
                            [s \in Totals |-> SecondPolicyCall(p1, s)])
    /\ BlockComplete("first_policy") =>
          first_player_policy_probability
            = Collapsed(first_player_probability,
                        [s \in Totals |-> FirstPolicyCall(s)])
    /\ \A p1 \in Totals, p2 \in Totals :
          /\ third_player_optimal_policy(p1, p2, 0) = Zero
          /\ second_player_optimal_policy(p1, 0) = Zero
          /\ first_player_optimal_policy(0) = Zero

\* A pass has completed in which the first player declines the first spin
\* with probability 1/2, so that both terms of the formula weigh in.
C7_Witness ==
    /\ BlockComplete("first_policy")
    /\ FirstPolicyCall(0) = Fraction(1, 2)
    /\ first_player_policy_probability # first_player_probability[0][0]
    /\ first_player_policy_probability[1] # Zero

\* Row k of table t; first_player_policy_probability is its own single row.
TableRow(t, k) ==
    CASE t = "third_player_probability" -> third_player_probability[k]
      [] t = "third_player_policy_probability" -> third_player_policy_probability[k]
      [] t = "second_player_probability" -> second_player_probability[k]
      [] t = "second_player_policy_probability" -> second_player_policy_probability[k]
      [] t = "first_player_probability" -> first_player_probability[k]
      [] OTHER -> first_player_policy_probability

\* Every row a step of the pass reads belongs to a table that was stored
\* whole before the step, and a step of the pass leaves the stored rows as
\* they are.
ReadsFinalCells ==
    pc # "idle" =>
        /\ \A r \in reads' :
              /\ r[2] \in written[r[1]]
              /\ written[r[1]] = Totals
        /\ \A t \in TableNames : \A k \in written[t] :
              TableRow(t, k)' = TableRow(t, k)

\* C8: within one solve pass the stages run finest to coarsest: a table cell
\* read by a raw cell of the second or first participant, or by an optimal
\* policy, was already written in this pass and is not modified again
\* before the pass ends; every read of a policy-collapsed table comes after
\* that whole table is complete.
C8_FinestToCoarsest == [][ReadsFinalCells]_vars

\* The first player's raw block has read the second player's collapsed
\* table, in a pass where the optimal policies read the raw tables.
C8_Witness ==
    /\ pc = "first_raw"
    /\ idx > 0
    /\ <<"second_player_policy_probability", WheelSize>> \in reads
    /\ third_player_policy = Optimal
    /\ second_player_policy = Optimal

AllOptimal ==
    /\ third_player_policy = Optimal
    /\ second_player_policy = Optimal
    /\ first_player_policy = Optimal

RECURSIVE BestSum(_, _, _)
\* SUM over s = 1..n of the larger of D[s][spin-again][own] and D[s][stop][own].
BestSum(D, own, n) ==
    IF n = 0 THEN Zero
    ELSE FracAdd(BestSum(D, own, n - 1),
                 IF FracGt(D[n][1][own], D[n][0][own])
                   THEN D[n][1][own] ELSE D[n][0][own])

\* The largest own win probability a deterministic stop/spin-again policy
\* obtains from the raw table D at a prior state.
BestOwn(D, own) == FracMul(Fraction(1, WheelSize), BestSum(D, own, WheelSize))

\* C9: with every participant following its optimal policy, each
\* participant's policy-collapsed own win probability at every prior state
\* is at least the own win probability of any other deterministic
\* stop/spin-again policy at that state, the later participants' policies
\* held fixed.
C9_OptimalIsBestResponse ==
    (pc = "done" /\ AllOptimal) =>
        /\ \A p1 \in Totals, p2 \in Totals :
              FracCmp(third_player_policy_probability[p1][p2][2],
                      BestOwn(third_player_probability[p1][p2], 2)) >= 0
        /\ \A p1 \in Totals :
              FracCmp(second_player_policy_probability[p1][1],
                      BestOwn(second_player_probability[p1], 1)) >= 0
        /\ FracCmp(first_player_policy_probability[0],
                   BestOwn(first_player_probability, 0)) >= 0

\* C10: for wheel size 20 with all three optimal policies, the final triple
\* satisfies P(first) < P(second) < P(third), strictly.
C10_LaterMoverAdvantage ==
    (pc = "done" /\ AllOptimal) =>
        /\ FracCmp(first_player_policy_probability[0],
                   first_player_policy_probability[1]) < 0
        /\ FracCmp(first_player_policy_probability[1],
                   first_player_policy_probability[2]) < 0

\* The pass of main has completed, with the triple it prints.
C10_Witness ==
    /\ pc = "done"
    /\ AllOptimal
    /\ first_player_policy_probability[0] = Fraction(3119339, 48000000)
    /\ first_player_policy_probability[1] = Fraction(33253571, 76800000)
    /\ first_player_policy_probability[2] = Fraction(192777433, 384000000)

\* A step of a later pass with the same policies stores what the table
\* already holds from the pass before.
StoresTheSameValues == passes > 1 => tables' = tables

\* C11: two solve passes made with the same policies store identical values
\* in every cell of every table and end with the same final triple, though
\* the later pass starts on the tables the earlier one filled and the
\* earlier one on zeroed tables.
C11_PassIsDeterministic == [][StoresTheSameValues]_vars

\* A second pass with a fractional and a threshold policy has completed on
\* the tables of the first.
C11_Witness ==
    /\ passes = 2
    /\ pc = "done"
    /\ first_player_policy = Coin
    /\ \A t \in TableNames \ {"first_player_policy_probability"} : written[t] = Totals
    /\ first_player_policy_probability[0] # Zero

\* C12: in each simulated game the totals passed to the later participants'
\* policies, and those the winner is determined from, are each
\* participant's actual final total: first spin, plus the second one when
\* the policy chose to spin again, 0 on a bust or a declined first spin.
C12_ActualTotalsAreUsed ==
    /\ Len(policy_args) >= 1 => policy_args[1] = <<turn_total[1]>>
    /\ Len(policy_args) >= 2 => policy_args[2] = <<turn_total[1], turn_total[2]>>
    /\ sim_pc = "counted" =>
          /\ <<p1_total, p2_total, p3_total>> = turn_total
          /\ \A n \in 1..3 : turn_total[winner] >= turn_total[n]


\* The form simplify() is written to establish: positive denominator, no
\* common factor, and zero held as 0/1.
Canonical(f) ==
    /\ f[2] > 0
    /\ Gcd(Abs(f[1]), f[2]) = 1
    /\ f[1] = 0 => f[2] = 1

\* C13: every Fraction that the constructor or one of + - * / hands back is
\* in canonical form (denominator > 0, numerator and denominator coprime,
\* zero stored as 0/1), whatever the signs of the inputs.
C13_ResultsAreCanonical ==
    (fop[1] \in {"Fraction", "+", "-", "*", "/"} /\ fres[1] = "value")
        => Canonical(fres[2])


\* The factors a caller scales numerator and denominator by.
Multipliers == {-3, -2, -1, 1, 2, 3}

\* C14: scaling numerator and denominator by the same nonzero k does not
\* change the Fraction constructed: Fraction(k*a, k*b) == Fraction(a, b),
\* for the k that keep k*a and k*b within the width of the arguments.
C14_ScalingLeavesValue ==
    (fop[1] = "Fraction" /\ fres[1] = "value") =>
        \A k \in Multipliers :
            (Fits(k * fop[2]) /\ Fits(k * fop[3])) =>
                \A out \in Outcomes(FractionLL(k * fop[2], k * fop[3])) :
                    out[1] = "value" => EqualsLL(out[2], fres[2])

C14_Witness ==
    /\ fop = <<"Fraction", 2, -3>>
    /\ fres = <<"value", <<-2, 3>>>>
    /\ Outcomes(FractionLL((-3) * 2, (-3) * (-3))) = {<<"value", <<-2, 3>>>>}


\* C15: constructing a Fraction with denominator 0 fails with an error for
\* every numerator, 0 included, and dividing by a Fraction that is zero
\* fails with an error; neither hands back a Fraction.
C15_ZeroDenominatorFails ==
    /\ (fop[1] = "Fraction" /\ fop[3] = 0) => fres[1] = "throw"
    /\ (fop[1] \in {"/", "/="} /\ fy[1] = 0) => fres[1] = "throw"

C15_Witness ==
    /\ fop = <<"Fraction", 0, 0>>
    /\ fres = <<"throw", "Denominator cannot be zero">>


\* The order of a/b and c/d with positive denominators, from the cross
\* products as integers: -1, 0 or 1.
ExactOrder(x, y) ==
    IF x[1] * y[2] < y[1] * x[2] THEN -1
    ELSE IF x[1] * y[2] > y[1] * x[2] THEN 1 ELSE 0

\* C16: for x = a/b and y = c/d, x == y exactly when a*d = c*b, x < y and
\* x > y exactly when a*d < c*b and a*d > c*b as integers, and x == y
\* exactly when neither x < y nor x > y.
C16_ComparisonIsExact ==
    /\ (fop[1] = "<=>" /\ fres[1] = "order") => fres[2] = ExactOrder(fx, fy)
    /\ fop[1] = "==" => (fres[2] <=> ExactOrder(fx, fy) = 0)
    /\ fop[1] = "==" =>
          \A r \in {CompareLL(fx, fy)} : fres[2] <=> r.num = 0


\* res is the rational that op gives on x and y, by cross multiplication in
\* the integers.
ExactResult(op, x, y, res) ==
    CASE op = "+" ->
           res[1] * (x[2] * y[2]) = (x[1] * y[2] + y[1] * x[2]) * res[2]
      [] op = "-" ->
           res[1] * (x[2] * y[2]) = (x[1] * y[2] - y[1] * x[2]) * res[2]
      [] op = "*" ->
           res[1] * (x[2] * y[2]) = (x[1] * y[1]) * res[2]
      [] op = "/" ->
           res[1] * (x[2] * y[1]) = (x[1] * y[2]) * res[2]

\* C17: Fraction arithmetic is exact for all operands: + - * / hand back the
\* exact rational result, and fail only on a division by zero; no product
\* formed on the way overflows silently.
C17_ArithmeticIsExact ==
    fop[1] \in {"+", "-", "*", "/"} =>
        /\ fres[1] = "value" => ExactResult(fop[1], fx, fy, fres[2])
        /\ fres[1] = "throw" => (fop[1] = "/" /\ fy[1] = 0)
        /\ fres[1] # "trap"


\* A step that is no construction leaves the fields of both instances as
\* they were.
InstancesKept == fop'[1] # "Fraction" => (fx' = fx /\ fy' = fy)

\* C18: Fraction is an immutable value type: once an instance is
\* constructed, no operation of the interface changes its numerator or its
\* denominator; an arithmetic operation leaves both operands unchanged and
\* hands back a new instance.
C18_InstancesNeverChange == [][InstancesKept]_vars


\* What a comparison with the given operator and result found: TRUE when
\* the assumed value was found to exceed the threshold, FALSE when it was
\* found to be below it.
FoundAbove(op, result) ==
    IF op \in {">", ">=", "F<", "F<="} THEN result ELSE ~result

\* C19: an Assumption starts with the bounds [0, 1]; each comparison with a
\* threshold x, by any of > < >= <= with the Assumption on either side,
\* updates one bound only: min_bound becomes max(min_bound, x) when the value
\* was found to exceed x, max_bound becomes min(max_bound, x) when it was
\* found to be below x, and the other bound is unchanged; so min_bound
\* never decreases and max_bound never increases.
C19_OneBoundTightens ==
    /\ comparisons = <<>> => (min_bound = Zero /\ max_bound = One)
    /\ comparisons # <<>> =>
         LET c == comparisons[Len(comparisons)]
             x == c[2]
             above == FoundAbove(c[1], c[3])
         IN  /\ FracGt(value, x) => above
             /\ FracLt(value, x) => ~above
             /\ above => /\ min_bound = FracMax(before[1], x)
                         /\ max_bound = before[2]
             /\ ~above => /\ max_bound = FracMin(before[2], x)
                          /\ min_bound = before[1]
             /\ ~FracLt(min_bound, before[1])
             /\ ~FracGt(max_bound, before[2])

C19_Witness ==
    /\ value = Fraction(1, 2)
    /\ comparisons = << <<">=", Fraction(1, 2), TRUE>>,
                        <<">", Fraction(1, 4), TRUE>>,
                        <<"F>", Fraction(3, 4), TRUE>> >>
    /\ before = <<Fraction(1, 2), One>>
    /\ min_bound = Fraction(1, 2)
    /\ max_bound = Fraction(3, 4)


\* The comparisons cs = <<operator, threshold, ...>> made in their order on
\* the Assumption this: <<the Assumption after them, their results>>.
RECURSIVE Replay(_, _)
Replay(this, cs) ==
    IF cs = <<>> THEN <<this, <<>>>>
    ELSE LET r == AssumptionCompare(cs[1][1], this, cs[1][2])
             rest == Replay(r[2], Tail(cs))
         IN  <<rest[1], <<r[1]>> \o rest[2]>>

\* C20: for a fixed assumed value, the final bounds and the result of each
\* single comparison are the same in whatever order a given multiset of
\* threshold comparisons is made.
C20_OrderDoesNotMatter ==
    \A f \in Permutations(1..Len(comparisons)) :
        LET cs == [i \in 1..Len(comparisons) |-> comparisons[f[i]]]
            r == Replay(NewAssumption(value), cs)
        IN  /\ r[1].min_bound = min_bound
            /\ r[1].max_bound = max_bound
            /\ \A i \in 1..Len(comparisons) : r[2][i] = cs[i][3]

C20_Witness ==
    /\ value = Fraction(1, 2)
    /\ comparisons = << <<">", Fraction(1, 4), TRUE>>,
                        <<"F<=", Fraction(1, 2), TRUE>>,
                        <<"<", Fraction(3, 4), TRUE>> >>
    /\ min_bound = Fraction(1, 2)
    /\ max_bound = Fraction(3, 4)


\* lo <= t <= hi for fractions with positive denominators, by cross
\* multiplication in the integers.
Within(lo, t, hi) ==
    /\ lo[1] * t[2] <= t[1] * lo[2]
    /\ t[1] * hi[2] <= hi[1] * t[2]

IsValidStep ==
    verdict' # <<>> =>
        /\ verdict'[2] <=> Within(min_bound, verdict'[1], max_bound)
        /\ <<value', min_bound', max_bound'>> = <<value, min_bound, max_bound>>

\* C21: is_valid(t) returns true exactly when min_bound <= t <= max_bound,
\* both endpoints included, and leaves the Assumption as it was.
C21_IsValidIsClosedInterval == [][IsValidStep]_vars

C21_Witness ==
    /\ verdict = <<Fraction(1, 2), TRUE>>
    /\ min_bound = Fraction(1, 2)
    /\ max_bound = Fraction(3, 4)
    /\ Len(comparisons) = 2


\* The Assumptions with min_bound <= max_bound, as constructed, whose
\* interval leaves the true value t out.
LeavesOut(t) ==
    {a \in {NewAssumptionWithin(c[1], c[2], c[3]) : c \in Constructions} :
        /\ FracLe(a.min_bound, a.max_bound)
        /\ ~Within(a.min_bound, t, a.max_bound)}

\* C22: when the thresholds recorded for a parameter contradict each other
\* (min_bound > max_bound), validation reports the parameter as infeasible:
\* what it returns differs from what it returns for an Assumption with
\* min_bound <= max_bound whose interval merely leaves the true value out.
C22_InfeasibleIsReported ==
    (verdict # <<>> /\ FracGt(min_bound, max_bound)) =>
        \A a \in LeavesOut(verdict[1]) :
            verdict[2] # is_valid(a, verdict[1])


\* C23: with the second mover's two-participant win rate assumed to be 0
\* and the third player's two-way tie decisions (spin again iff
\* (20 - c)/20 > assumed value, for every tied total c in 1..20) recorded
\* against it, validation after the pass returns false for every true
\* value t >= 1/2.
C23_ZeroAssumptionIsRejected ==
    (/\ value = Zero
     /\ tie_idx = TieStates
     /\ verdict # <<>>
     /\ FracLe(Fraction(1, 2), verdict[1])) => verdict[2] = FALSE

C23_Witness ==
    /\ value = Zero
    /\ tie_idx = TieStates
    /\ {c[2] : c \in {comparisons[n] : n \in 1..Len(comparisons)}}
          = {Fraction(WheelSize - c, WheelSize) : c \in 1..WheelSize}
    /\ min_bound = Zero
    /\ max_bound = Fraction(1, 20)
    /\ verdict = <<Fraction(1, 2), FALSE>>


\* Values a true value may take, among them values between the thresholds.
Candidates == {Fraction(k, 8) : k \in 0..8}

\* C24: after any sequence of comparisons made with the assumed value,
\* every value t strictly between min_bound and max_bound gives, in each of
\* those comparisons, the boolean the assumed value gave: no decision
\* would change if t replaced the assumed value.
C24_IntervalDecidesAlike ==
    \A t \in Candidates :
        (FracLt(min_bound, t) /\ FracLt(t, max_bound)) =>
            \A n \in 1..Len(comparisons) :
                AssumptionCompare(comparisons[n][1], NewAssumption(t),
                                  comparisons[n][2])[1] = comparisons[n][3]

C24_Witness ==
    /\ value = Fraction(1, 2)
    /\ comparisons = << <<"F<", Fraction(1, 4), TRUE>>,
                        <<"<=", Fraction(3, 4), TRUE>>,
                        <<">=", Fraction(1, 4), TRUE>> >>
    /\ min_bound = Fraction(1, 4)
    /\ max_bound = Fraction(3, 4)
    /\ verdict = <<>>


ValueStaysInside ==
    /\ value' = value
    /\ Within(min_bound', value', max_bound')

\* C28: an Assumption constructed with initial_min <= value <= initial_max
\* keeps min_bound <= value <= max_bound through every sequence of
\* comparisons, and its value is never changed; so min_bound > max_bound is
\* not reachable for it.
C28_ValueStaysWithinBounds ==
    Within(min_bound, value, max_bound) /\ [][ValueStaysInside]_vars

C28_Witness ==
    /\ value = Fraction(1, 2)
    /\ comparisons = << <<">", Fraction(1, 2), FALSE>>,
                        <<"<", Fraction(1, 2), FALSE>> >>
    /\ min_bound = Fraction(1, 2)
    /\ max_bound = Fraction(1, 2)


FailureKeepsObject ==
    (fres'[1] = "throw" /\ fop'[1] \in {"set", "+=", "-=", "*=", "/="}) =>
        /\ fx' = fx
        /\ fx'[2] > 0

\* C29: a Fraction operation that fails with an error leaves the object it
\* was called on unchanged and canonical: after a failed a /= zero or a
\* failed a.set(n, 0), a still holds its previous value, with
\* denominator > 0.
C29_FailureLeavesObject == [][FailureKeepsObject]_vars


\* C25: in the finest stage, whenever the two prior totals are equal and
\* the third participant's final total is strictly below them, participants
\* 1 and 2 receive 1/2 each and participant 3 receives 0: in the stop
\* branch, and for each such outcome of the second spin in the spin-again
\* branch (where the outcome weighs 1/20).
C25_EqualPriorsShareTheWin ==
    \A p \in ThirdWritten, s \in Totals :
        s < p =>
            /\ \A c \in {third_player_probability[p][p][s][0]} :
                  /\ c[0] = Fraction(1, 2)
                  /\ c[1] = Fraction(1, 2)
                  /\ c[2] = Zero
            /\ \A spin2 \in Spins :
                  NewTotal(s, spin2) < p =>
                      \A c \in {ThirdSpinStep(ZeroCell, p, p, s, spin2)} :
                          /\ c[0] = FracMul(prob_new_spin, Fraction(1, 2))
                          /\ c[1] = FracMul(prob_new_spin, Fraction(1, 2))
                          /\ c[2] = Zero


\* C26: third_player_optimal_policy answers "stop" (0) at every state where
\* the first spin is strictly greater than both prior totals, and "spin
\* again" (1) at every state where 1 <= spin1 < max(p1, p2).
C26_ThirdPolicyByComparison ==
    \A p1 \in ThirdWritten, p2 \in Totals, spin1 \in Spins :
        /\ (spin1 > p1 /\ spin1 > p2) =>
              third_player_optimal_policy(p1, p2, spin1) = Zero
        /\ spin1 < max(p1, p2) =>
              third_player_optimal_policy(p1, p2, spin1) = One

C26_Witness ==
    /\ ThirdWritten = Totals
    /\ third_player_optimal_policy(15, 10, 17) = Zero
    /\ third_player_optimal_policy(15, 10, 5) = One
    /\ third_player_optimal_policy(0, 0, WheelSize) = Zero
    /\ third_player_optimal_policy(WheelSize, WheelSize, 1) = One


\* C27: when both earlier participants have total 0, the third
\* participant's policy-collapsed outcome under the optimal policy is a
\* certain win: third_player_policy_probability[0][0] = (0, 0, 1).
C27_ThirdWinsOverTwoBusts ==
    (third_player_policy = Optimal
       /\ 0 \in written["third_player_policy_probability"]) =>
        /\ third_player_policy_probability[0][0][0] = Zero
        /\ third_player_policy_probability[0][0][1] = Zero
        /\ third_player_policy_probability[0][0][2] = One

C27_Witness ==
    /\ third_player_policy = Optimal
    /\ 0 \in written["third_player_policy_probability"]
    /\ third_player_policy_probability[0][0][2] = One
    /\ \A spin1 \in Spins : third_player_optimal_policy(0, 0, spin1) = Zero

\* A policy whose value at spin 0 is 0 or 1: the optimal policies return
\* Fraction(1, 1) or Fraction(0, 1) everywhere.
SpinZeroIsZeroOrOne(pol) ==
    pol.kind = "optimal" \/ FixedPolicy(pol, 0) \in {Zero, One}

\* C30: the solver of dynamic_programming.cpp and the solver of the
\* simulation-enabled main file agree: when the three policies have value
\* 0 or 1 at spin 0, every row the former has stored in each of the six
\* tables holds the values the statements of the latter produce, and so
\* does the final win-probability triple.
C30_ImplementationsAgree ==
    (/\ SpinZeroIsZeroOrOne(third_player_policy)
     /\ SpinZeroIsZeroOrOne(second_player_policy)
     /\ SpinZeroIsZeroOrOne(first_player_policy)) =>
        /\ \A p1 \in written["third_player_probability"] :
              third_player_probability[p1] = ThirdRow(p1)
        /\ \A p1 \in written["third_player_policy_probability"] :
              \A p2 \in Totals :
                 third_player_policy_probability[p1][p2] =
                    ThirdCollapseCell(p1, p2, ThirdCollapseWins(p1, p2))
        /\ \A p1 \in written["second_player_probability"] :
              \A spin1 \in Totals, spinAgain \in 0..1 :
                 second_player_probability[p1][spin1][spinAgain] =
                    SecondCell(p1, spin1, spinAgain)
        /\ \A p1 \in written["second_player_policy_probability"] :
              second_player_policy_probability[p1] =
                 SecondCollapseCell(p1, SecondCollapseWins(p1))
        /\ \A spin1 \in written["first_player_probability"] :
              \A spinAgain \in 0..1 :
                 first_player_probability[spin1][spinAgain] =
                    FirstCell(spin1, spinAgain)
        /\ 0 \in written["first_player_policy_probability"] =>
              first_player_policy_probability =
                 FirstCollapseCell(FirstCollapseWins)

====
